---- MODULE Spec2Model ----
(***************************************************************************)
(* Capture / mix / record state machine of the chrome-screen-recorder      *)
(* extension.  The repository holds three recorder front ends; one of them *)
(* is loaded in a page, and Init chooses which:                            *)
(*                                                                         *)
(*   "window"   src/src/presentation/popup/popup.js                        *)
(*   "legacy"   src/popup.js                                               *)
(*   "react"    the React popup (src/unnamed/part_001) driving             *)
(*              src/src/shared/recorder/recorder.ts                        *)
(*                                                                         *)
(* One JavaScript task (a click handler, a timer callback, an event        *)
(* listener, the continuation of an await on a platform promise) is one    *)
(* action.  Code separated only by microtask boundaries runs in one        *)
(* action, because no task can run in between.                             *)
(*                                                                         *)
(* Streams, contexts, polls and recorders are identified by the number of  *)
(* the start invocation ("attempt") that created them; a reference         *)
(* variable holds an attempt number, or NULL.  Of a track only "live or    *)
(* not" is kept, of an AudioContext only "open or not": a stream from      *)
(* getUserMedia({audio}) always has its audio track, one from              *)
(* getDisplayMedia({video}) always has its video track, and whether the    *)
(* display stream carries audio is read only in the task that acquires it. *)
(***************************************************************************)
EXTENDS Naturals, Integers, Sequences, FiniteSets, TLC

\* ---- bounds ----
MaxAttempts  == 3       \* start invocations in one page
MaxChunks    == 2       \* non-empty chunks fired by timeslice in one page
MaxCalls     == 2       \* startRecorder() calls in one page
MaxStopCalls == 2       \* stop() calls on one RecorderController
MaxMeetings  == 2       \* meetings a tab's location can name, per site
MaxSessions  == 3       \* session ids generated in one tab
MaxWindows   == 3       \* chrome.windows.create calls of the background script
MaxLookups   == 2       \* chrome.windows.get calls awaiting their callback
MaxRecordings == 2      \* recordings handed to preview pages

Attempts == 1..MaxAttempts
Recordings == 1..MaxRecordings
NULL     == 0

Programs == {"window", "legacy", "react"}

VARIABLES
  program,          \* the front end loaded in this page
  autoStart,        \* the 200 ms auto-start timer: "armed" | "fired" | "none"
  nAttempts,        \* number of start invocations so far
  flow,             \* per attempt: where the start function is suspended, or "returned"
  wantSys,          \* per attempt: includeSystemAudio as read at entry (while the flow runs)
  recorder, recordedChunks, combinedStream, displayStream, micStream,
  audioContext,     \* combinedStream._audioContext of the stream combinedStream refers to
  startDisabled, stopDisabled, status,
  instructions,     \* settingsInstructions is displayed
  live,             \* per attempt: its tracks whose readyState is 'live'
  ctxOpen,          \* the attempts whose AudioContext is open
  pollActive,       \* the attempts whose share-end interval is running
  endedPending,     \* the attempts whose video track has a queued 'ended' event
  rec,              \* per attempt: its MediaRecorder, "inactive" | "recording" | "paused" | "stopping"
  closeRejected,    \* close() was called on a context that is not open
  delivered,        \* per recorder: the non-empty chunks it fired, in order, until
                    \* its recording is built
  nChunks,          \* non-empty chunks fired by timeslice so far, by all recorders
  stopCalls,        \* per recorder: times it was stopped (recorder.stop(), or by the
                    \* platform when every track of its stream had ended)
  finalizeCalls,    \* per recorder: runs of its stop handler
  handoffs,         \* per recorder: recordings handed to a consumer
  lastTeardown,     \* the release steps run by the latest handler, in execution order
  lastBlob,         \* the recording built by the latest handler, or NoBlob
  recorderRef,      \* react: recorderRef.current
  isRecording,      \* react: the isRecording state
  chunks,           \* react: per startRecorder call, its chunks array
  onstop,           \* react: per recorder, the stop() call whose handler is recorder.onstop
  stopPromises,     \* react: per controller, the promises its stop() calls returned
  supports,         \* per candidate of getSupportedMimeType: what
                    \* MediaRecorder.isTypeSupported does in this browser
  micPrompts,       \* per attempt: microphone permission prompts shown so far in its
                    \* run, while the run awaits getUserMedia
  screenAudio,      \* react: per call awaiting getUserMedia, screenStream has an audio track
  errored,          \* the recorders that have fired an error event
  stored,           \* the preferences chrome.storage.local holds
  checked,          \* the includeMic and includeSystemAudio checkboxes
  prefsLoad,        \* loadPreferences: "pending" | "done", or "untracked" where the
                    \* checkboxes are not followed and a start may read any values
  lastCall,         \* what the latest handler observed and decided, or NoCall
  page,             \* content script: the tab's document (location and meeting controls)
  meetingSessionId, \* content script: the tracked session id, or NULL
  currentMeetingType, \* content script: the identifier stored with the tracked session
  nSessions,        \* content script: ids generateSessionId has returned so far
  lastCheck,        \* content script: what the latest checkAndNotify run observed
                    \* and sent, or NoCheck
  recorderWindowId, \* background: the id of the recorder window, or NULL
  windowsOpen,      \* background: the recorder windows that exist
  creating,         \* background: the windows chrome.windows.create was asked for
                    \* whose callback has not run
  lookups,          \* background: the chrome.windows.get calls whose callback has
                    \* not run, each the id it was given
  nWindows,         \* background: chrome.windows.create calls so far
  lastFocus,        \* background: the window the latest handler focused, or NULL
  handleStopAt,     \* react: per controller, the await at which the handleStop that
                    \* got its recording stands: "download" | "save" | "delete", or
                    \* "returned"
  idb,              \* react: the ids of the entries of the IndexedDB store 'recordings'
  alerts,           \* react: per controller, the alert its handleStop showed, or "none"
  recordingData,    \* preview hand-off: the recording under the key recordingData of
                    \* chrome.storage.local, or NULL
  stage,            \* preview hand-off: per recording, how far handleRecorderStop's
                    \* callbacks have taken it: "none" | "setting" | "stored" | "fallback"
  preview,          \* per recording, the preview page opened for it: "none" |
                    \* "opening" | "loaded" | "nodata" | "error" | "closing" | "closed"
  recordingBlob,    \* per preview page: the recording its recordingBlob holds, or NULL
  cleanupTimer      \* the preview pages whose 2 s cleanup timer is running

contentVars == <<page, meetingSessionId, currentMeetingType, nSessions, lastCheck>>
backgroundVars == <<recorderWindowId, windowsOpen, creating, lookups, nWindows, lastFocus>>
storeVars == <<handleStopAt, idb, alerts>>
previewVars == <<recordingData, stage, preview, recordingBlob, cleanupTimer>>
\* What no handler of a popup touches, but for handleStop once it has the
\* recording.
pageVars  == <<program, supports, contentVars, backgroundVars, storeVars, previewVars>>
askVars   == <<micPrompts, screenAudio>>
prefVars  == <<stored, checked, prefsLoad>>
flowVars  == <<nAttempts, flow, wantSys>>
resVars   == <<live, ctxOpen, pollActive, combinedStream, displayStream, micStream,
               audioContext, closeRejected>>
uiVars    == <<startDisabled, stopDisabled, status, instructions>>
recVars   == <<recorder, rec, stopCalls>>
chunkVars == <<recordedChunks, delivered, nChunks>>
sinkVars  == <<finalizeCalls, handoffs>>
reactVars == <<recorderRef, isRecording, chunks, onstop, stopPromises>>
vars == <<program, autoStart, nAttempts, flow, wantSys, recorder, recordedChunks,
          combinedStream, displayStream, micStream, audioContext,
          startDisabled, stopDisabled, status, instructions,
          live, ctxOpen, pollActive, endedPending, rec, closeRejected,
          delivered, nChunks, stopCalls, finalizeCalls, handoffs,
          lastTeardown, lastBlob,
          recorderRef, isRecording, chunks, onstop, stopPromises,
          supports, micPrompts, screenAudio, errored, stored, checked, prefsLoad,
          lastCall, page, meetingSessionId, currentMeetingType, nSessions, lastCheck,
          recorderWindowId, windowsOpen, creating, lookups, nWindows, lastFocus,
          handleStopAt, idb, alerts,
          recordingData, stage, preview, recordingBlob, cleanupTimer>>

\* ---- tracks and streams ----
Kinds == {"mic", "video", "sysaudio", "mixed"}

\* getTracks() of each stream: the display video track is shared by the
\* display stream and the combined stream.
StreamTracks(s) ==
  CASE s = "mic"      -> {"mic"}
    [] s = "display"  -> {"video", "sysaudio"}
    [] s = "combined" -> {"video", "mixed"}

Pending == {"awaitChrome", "awaitMic", "awaitPerm", "awaitDisplay", "awaitImport"}

PermissionStates == {"granted", "denied", "prompt", "unknown"}
\* Fault seeding: a cancellation list without NotReadableError.
silentErrorNamesShort == {"AbortError", "NotAllowedError", "SecurityError", "NotFoundError"}

silentErrorNames == {"AbortError", "NotAllowedError", "SecurityError", "NotFoundError", "NotReadableError"}
\* err.name of a getDisplayMedia rejection.
ErrorNames ==
  {"AbortError", "NotAllowedError", "SecurityError", "NotFoundError", "NotReadableError",
   "InvalidStateError", "TypeError"}

\* err.message of a rejection: empty, or some text.
Messages == {"", "Could not start video source"}

\* What follows 'Failed to start display capture: ' in the status:
\* err.message ? err.message : err, where an error without a message
\* converts to its name.
failureDetail(errorName, message) == IF message # "" THEN message ELSE errorName

\* No recording was built by the handler that just ran.
NoBlob == [of |-> NULL, parts |-> <<>>, fired |-> <<>>, released |-> TRUE, type |-> ""]

\* Nothing to report of the handler that just ran.
NoCall == [op |-> "none"]

\* A handler that releases nothing and builds no recording.
NoTrace == lastTeardown' = <<>> /\ lastBlob' = NoBlob /\ lastCall' = NoCall

\* ---- teardown ----
Resources ==
  [live |-> live, ctxOpen |-> ctxOpen, pollActive |-> pollActive,
   combinedStream |-> combinedStream, displayStream |-> displayStream,
   micStream |-> micStream, audioContext |-> audioContext,
   closeRejected |-> closeRejected, log |-> <<>>]

SetResources(r) ==
  /\ live' = r.live
  /\ ctxOpen' = r.ctxOpen
  /\ pollActive' = r.pollActive
  /\ combinedStream' = r.combinedStream
  /\ displayStream' = r.displayStream
  /\ micStream' = r.micStream
  /\ audioContext' = r.audioContext
  /\ closeRejected' = r.closeRejected

LogName(s) ==
  CASE s = "mic"      -> "stopMic"
    [] s = "display"  -> "stopDisplay"
    [] s = "combined" -> "stopCombined"

\* stopAllTracks(stream): n is the stream reference, s says which stream it is.
stopAllTracks(r, s, n) ==
  IF n = NULL THEN r
  ELSE [r EXCEPT !.live[n] = @ \ StreamTracks(s),
                 !.log = Append(@, LogName(s))]

\* cleanupRecordingResources, "Close audio context".
closeAudioContext(r) ==
  IF r.combinedStream # NULL /\ r.audioContext # NULL
  THEN [r EXCEPT !.ctxOpen = @ \ {r.audioContext},
                 !.closeRejected = @ \/ (r.audioContext \notin r.ctxOpen),
                 !.log = Append(@, "closeContext")]
  ELSE r

\* cleanupRecordingResources, "Clear screen share end detection interval".
clearSharePoll(r) ==
  IF r.displayStream # NULL
  THEN [r EXCEPT !.pollActive = @ \ {r.displayStream}, !.log = Append(@, "clearPoll")]
  ELSE r

\* Fault seeding: a teardown that keeps its stream references.
keepReferences(r) == [r EXCEPT !.log = Append(@, "nullRefs")]

\* cleanupRecordingResources, "Clear stream references".
clearReferences(r) ==
  [r EXCEPT !.combinedStream = NULL, !.displayStream = NULL, !.micStream = NULL,
            !.audioContext = NULL, !.log = Append(@, "nullRefs")]

\* Fault seeding: a teardown that stops the microphone before the display.
cleanupMicFirst(r) ==
  LET r1 == closeAudioContext(r)
      r2 == stopAllTracks(r1, "combined", r1.combinedStream)
      r3 == clearSharePoll(r2)
      r4 == stopAllTracks(r3, "mic", r3.micStream)
      r5 == stopAllTracks(r4, "display", r4.displayStream)
  IN  clearReferences(r5)

\* The window recorder's teardown.
cleanupRecordingResources(r) ==
  LET r1 == closeAudioContext(r)
      r2 == stopAllTracks(r1, "combined", r1.combinedStream)
      r3 == clearSharePoll(r2)
      r4 == stopAllTracks(r3, "display", r3.displayStream)
      r5 == stopAllTracks(r4, "mic", r4.micStream)
  IN  clearReferences(r5)

\* The legacy popup's teardown, written out in its handleRecorderStop and in
\* its stopRecordingFlow.
legacyCleanup(r) ==
  LET r1 == closeAudioContext(r)
      r2 == stopAllTracks(r1, "combined", r1.combinedStream)
      r3 == stopAllTracks(r2, "display", r2.displayStream)
      r4 == stopAllTracks(r3, "mic", r3.micStream)
  IN  clearReferences(r4)

\* The teardown of the loaded popup script.
popupCleanup(r) ==
  IF program = "window" THEN cleanupRecordingResources(r) ELSE legacyCleanup(r)

\* ---- MediaRecorder and its stream ----
\* A recording MediaRecorder whose stream has no live track left is stopped by
\* the platform: its state becomes 'inactive' and the task that fires its last
\* dataavailable and its stop event is queued.  recX and liveX are the
\* recorder states and the live tracks after the handler's own assignments.
allTracksEnded(recX, liveX) ==
  [n \in Attempts |->
     IF recX[n] \in {"recording", "paused"} /\ liveX[n] \cap StreamTracks("combined") = {}
     THEN "stopping" ELSE recX[n]]

\* stopCalls after the stops that took rec to recX.
countStops(recX) ==
  [n \in Attempts |->
     IF rec[n] \in {"recording", "paused"} /\ recX[n] = "stopping"
     THEN stopCalls[n] + 1 ELSE stopCalls[n]]

\* Attempt n's tracks are all stopped and its AudioContext is not open, in r.
ReleasedIn(r, n) == r.live[n] = {} /\ n \notin r.ctxOpen

\* ---- format negotiation ----
\* The candidates of getSupportedMimeType, in its order of preference.
candidates ==
  <<"video/webm;codecs=vp9,opus", "video/webm;codecs=vp8,opus",
    "video/webm;codecs=vp9", "video/webm">>

\* What MediaRecorder.isTypeSupported(candidate) can do: return true, return
\* false, or throw.
Answers == {"yes", "no", "throws"}

\* A browser, as far as format negotiation goes: its answer per candidate.
Browsers == [1..Len(candidates) -> Answers]

\* A browser that supports every candidate.
Chromium == [i \in 1..Len(candidates) |-> "yes"]

\* getSupportedMimeType: the loop over the candidates from position i on; an
\* isTypeSupported call that throws is caught and the loop goes on.
RECURSIVE firstSupported(_, _)
firstSupported(browser, i) ==
  IF i > Len(candidates) THEN ""
  ELSE IF browser[i] = "yes" THEN candidates[i]
  ELSE firstSupported(browser, i + 1)

\* Fault seeding: a negotiation that takes the preferred candidate unprobed.
getPreferredMimeType(browser) == candidates[1]

getSupportedMimeType(browser) == firstSupported(browser, 1)

\* recorder.mimeType of a MediaRecorder constructed without options.
defaultMimeType == "browser default"

\* mimeType ? new MediaRecorder(combinedStream, { mimeType }) :
\* new MediaRecorder(combinedStream): recorder.mimeType of the recorder made.
recorderMimeType(mimeType) == IF mimeType # "" THEN mimeType ELSE defaultMimeType

\* ---- preferences ----
\* What the two checkboxes, or the stored preferences, can hold.
Preferences == [includeSystemAudio : BOOLEAN, includeMic : BOOLEAN]

\* The defaults loadPreferences passes to chrome.storage.local.get.
defaultPreferences == [includeSystemAudio |-> FALSE, includeMic |-> TRUE]

\* The checkboxes are not followed: the user may have set them to anything
\* by the time a start reads them.
Untracked ==
  /\ prefsLoad = "untracked"
  /\ stored = defaultPreferences
  /\ checked = defaultPreferences

\* The values a start can read from the checkboxes.
checkboxes == IF prefsLoad = "untracked" THEN Preferences ELSE {checked}

\* ==== the content script ====
\* The tab's document as the content script reads it.  site is the host of
\* window.location; code is the meeting it names (a Meet code, a Zoom meeting
\* number, a Teams meetup-join link), 0 for none; inHash says a Teams
\* meetup-join link is in the hash and not in the path; hint is a marker that
\* names no meeting (Zoom: a hash with '/join' and no number; Teams:
\* '/calling/', 'action=visit', a hash with 'calling' or 'pre-join'); ui is
\* the presence of the meeting controls the script queries the DOM for.
Sites == {"meet", "zoom", "teams", "other"}

Pages ==
  {p \in [site : Sites, code : 0..MaxMeetings, inHash : BOOLEAN, hint : BOOLEAN,
          ui : BOOLEAN] :
     /\ p.inHash => (p.site = "teams" /\ p.code # 0)
     /\ p.hint => p.site \in {"zoom", "teams"}
     /\ p.site = "other" => (p.code = 0 /\ ~p.ui)}

\* A blank tab.
NoPage == [site |-> "other", code |-> 0, inHash |-> FALSE, hint |-> FALSE, ui |-> FALSE]

isTeamsMeetingUIPresent(p) == p.ui

\* detectMeetingPage's null.
NoMeeting == "none"

\* The meeting type, or null.
detectMeetingPage(p) ==
  CASE p.site = "meet"  -> IF p.code # 0 THEN "google-meet" ELSE NoMeeting
    [] p.site = "zoom"  -> IF p.code # 0 \/ p.hint THEN "zoom" ELSE NoMeeting
    [] p.site = "teams" -> IF p.code # 0 \/ p.hint \/ isTeamsMeetingUIPresent(p)
                           THEN "teams" ELSE NoMeeting
    [] OTHER            -> NoMeeting

isMeetingActive(p) ==
  CASE detectMeetingPage(p) = "google-meet" -> p.ui
    [] detectMeetingPage(p) = "zoom"        -> p.ui
    [] detectMeetingPage(p) = "teams"       -> isTeamsMeetingUIPresent(p)
    [] OTHER                                -> FALSE

\* getMeetingIdentifier's null.
NoIdentifier == <<>>

\* The identifier, or null.  The Teams identifier is the first 50 characters
\* of the hash, or of the whole address when the hash is empty: the address
\* spends them on the host and '/l/meetup-join/', so that only a link in the
\* hash tells two meetings apart.
getMeetingIdentifier(p) ==
  CASE p.site = "zoom" /\ p.code # 0  -> <<"zoom", p.code>>
    [] p.site = "meet" /\ p.code # 0  -> <<"meet", p.code>>
    [] p.site = "teams" /\ p.code # 0 -> <<"teams", IF p.inHash THEN p.code ELSE 0>>
    [] OTHER                          -> NoIdentifier

\* What a run of checkAndNotify observed and whether it sent meetingDetected.
NoCheck == [active |-> FALSE, id |-> NoIdentifier, sent |-> FALSE]

\* The script as injected: nothing tracked.
ContentIdle ==
  /\ meetingSessionId = NULL
  /\ currentMeetingType = NoIdentifier
  /\ nSessions = 0
  /\ lastCheck = NoCheck

\* The React popup as opened: no handleStop has a recording, and the store
\* holds no entry.
StoreIdle ==
  /\ handleStopAt = [n \in Attempts |-> "download"]
  /\ idb = {}
  /\ alerts = [n \in Attempts |-> "none"]

\* No recording handed to a preview page yet.
PreviewIdle ==
  /\ recordingData = NULL
  /\ stage = [n \in Recordings |-> "none"]
  /\ preview = [n \in Recordings |-> "none"]
  /\ recordingBlob = [n \in Recordings |-> NULL]
  /\ cleanupTimer = {}

\* The background script as started: no recorder window.
BackgroundIdle ==
  /\ recorderWindowId = NULL
  /\ windowsOpen = {}
  /\ creating = {}
  /\ lookups = <<>>
  /\ nWindows = 0
  /\ lastFocus = NULL

\* ---- initial state ----
\* The page as loaded in the given browser.
LoadedAs(prog, browser) ==
  /\ supports = browser
  /\ micPrompts = [n \in Attempts |-> 0]
  /\ screenAudio = [n \in Attempts |-> FALSE]
  /\ errored = {}
  /\ lastCall = NoCall
  /\ program = prog
  /\ autoStart = IF program = "window" THEN "armed" ELSE "none"
  /\ nAttempts = 0
  /\ flow = [n \in Attempts |-> "none"]
  /\ wantSys = [n \in Attempts |-> FALSE]
  /\ recorder = NULL
  /\ recordedChunks = <<>>
  /\ combinedStream = NULL
  /\ displayStream = NULL
  /\ micStream = NULL
  /\ audioContext = NULL
  /\ startDisabled = FALSE
  /\ stopDisabled = TRUE
  /\ status = "Ready"
  /\ instructions = FALSE
  /\ live = [n \in Attempts |-> {}]
  /\ ctxOpen = {}
  /\ pollActive = {}
  /\ endedPending = {}
  /\ rec = [n \in Attempts |-> "inactive"]
  /\ closeRejected = FALSE
  /\ delivered = [n \in Attempts |-> <<>>]
  /\ nChunks = 0
  /\ stopCalls = [n \in Attempts |-> 0]
  /\ finalizeCalls = [n \in Attempts |-> 0]
  /\ handoffs = [n \in Attempts |-> 0]
  /\ lastTeardown = <<>>
  /\ lastBlob = NoBlob
  /\ recorderRef = NULL
  /\ isRecording = FALSE
  /\ chunks = [n \in Attempts |-> <<>>]
  /\ onstop = [n \in Attempts |-> 0]
  /\ stopPromises = [n \in Attempts |-> <<>>]

Loaded(browser) ==
  /\ \E prog \in Programs : LoadedAs(prog, browser)
  /\ page = NoPage
  /\ ContentIdle
  /\ BackgroundIdle
  /\ StoreIdle
  /\ PreviewIdle

Init == Loaded(Chromium) /\ Untracked

\* ==== the popup scripts (window and legacy) ====

\* ---- startRecordingFlow: entry up to its first await ----
\* The legacy script awaits requestChromeMicrophonePermission() before
\* getUserMedia.
startRecordingFlow(n, includeMic, includeSystemAudio) ==
  /\ nAttempts' = n
  /\ startDisabled' = TRUE
  /\ stopDisabled' = TRUE
  /\ instructions' = FALSE
  /\ status' = "Preparing..."
  /\ micStream' = NULL
  /\ wantSys' = [wantSys EXCEPT ![n] = includeSystemAudio]
  /\ flow' = [flow EXCEPT ![n] =
                IF ~includeMic THEN "awaitDisplay"
                ELSE IF program = "legacy" THEN "awaitChrome" ELSE "awaitMic"]
  /\ lastTeardown' = <<>>
  /\ lastBlob' = NoBlob
  /\ lastCall' = [op |-> "enter", of |-> n, includeMic |-> includeMic]
  /\ UNCHANGED <<pageVars, prefVars, errored, askVars, live, ctxOpen, pollActive, combinedStream, displayStream,
                 audioContext, closeRejected, endedPending, recVars, chunkVars,
                 sinkVars, reactVars>>

\* Start button, in the persistent window (mode=window).
StartClick ==
  /\ program \in {"window", "legacy"}
  /\ ~startDisabled
  /\ nAttempts < MaxAttempts
  /\ \E c \in checkboxes :
       startRecordingFlow(nAttempts + 1, c.includeMic, c.includeSystemAudio)
  /\ UNCHANGED autoStart

\* The setTimeout(..., 200) callback of initializeAutoStart.
AutoStartTimer ==
  /\ autoStart = "armed"
  /\ autoStart' = "fired"
  /\ IF recorder = NULL /\ ~startDisabled /\ nAttempts < MaxAttempts
     THEN \E c \in checkboxes :
            startRecordingFlow(nAttempts + 1, c.includeMic, c.includeSystemAudio)
     ELSE /\ NoTrace
          /\ UNCHANGED <<pageVars, prefVars, errored, askVars, flowVars, resVars, uiVars, endedPending, recVars,
                         chunkVars, sinkVars, reactVars>>

\* A permission request that has settled: the prompts shown so far in this
\* run, given whether the request showed one.  A request shows no prompt
\* when the browser answers it from a stored decision or refuses it outright.
prompted(shown, before) == IF shown THEN before + 1 ELSE before

\* Legacy: chrome.permissions.request({permissions: ['microphone']})
\* answered; the answer is not used.
ChromePermissionAnswered(n) ==
  /\ flow[n] = "awaitChrome"
  /\ flow' = [flow EXCEPT ![n] = "awaitMic"]
  /\ \E shown \in BOOLEAN :
       micPrompts' = [micPrompts EXCEPT ![n] = prompted(shown, @)]
  /\ NoTrace
  /\ UNCHANGED <<pageVars, prefVars, errored, screenAudio, autoStart, nAttempts, wantSys, resVars, uiVars, endedPending,
                 recVars, chunkVars, sinkVars, reactVars>>

\* STEP 1: getUserMedia({audio: true}) resolved.
MicGranted(n) ==
  /\ program \in {"window", "legacy"}
  /\ flow[n] = "awaitMic"
  /\ micStream' = n
  /\ live' = [live EXCEPT ![n] = @ \cup {"mic"}]
  /\ flow' = [flow EXCEPT ![n] = "awaitDisplay"]
  /\ \E shown \in BOOLEAN :
       lastCall' = [op |-> "micRequest", of |-> n,
                    prompts |-> prompted(shown, micPrompts[n])]
  /\ micPrompts' = [micPrompts EXCEPT ![n] = 0]
  /\ lastTeardown' = <<>>
  /\ lastBlob' = NoBlob
  /\ UNCHANGED <<pageVars, prefVars, errored, screenAudio, autoStart, nAttempts, wantSys, ctxOpen, pollActive,
                 combinedStream, displayStream, audioContext, closeRejected, uiVars,
                 endedPending, recVars, chunkVars, sinkVars, reactVars>>

\* STEP 1: getUserMedia rejected; checkMicPermissionState() is awaited next.
MicRejected(n) ==
  /\ program \in {"window", "legacy"}
  /\ flow[n] = "awaitMic"
  /\ flow' = [flow EXCEPT ![n] = "awaitPerm"]
  /\ \E shown \in BOOLEAN :
       lastCall' = [op |-> "micRequest", of |-> n,
                    prompts |-> prompted(shown, micPrompts[n])]
  /\ micPrompts' = [micPrompts EXCEPT ![n] = 0]
  /\ lastTeardown' = <<>>
  /\ lastBlob' = NoBlob
  /\ UNCHANGED <<pageVars, prefVars, errored, screenAudio, autoStart, nAttempts, wantSys, resVars, uiVars, endedPending,
                 recVars, chunkVars, sinkVars, reactVars>>

\* Fault seeding: a fallback that asks to continue whatever the permission state.
micFallbackAlwaysAsk(permissionState, proceed) ==
  IF ~proceed THEN "declined" ELSE "continue"

\* Fault seeding: a fallback that gives up whatever the user answers.
micFallbackNeverContinue(permissionState, proceed) ==
  IF permissionState = "denied" THEN "denied" ELSE "declined"

\* STEP 1, after a failed getUserMedia: which way the flow goes.  confirm() is
\* called only when the permission state is not 'denied'.
micFallback(permissionState, proceed) ==
  IF permissionState = "denied" THEN "denied"
  ELSE IF ~proceed THEN "declined"
  ELSE "continue"

\* STEP 1: the permission state arrived; confirm() is synchronous.
MicPermissionChecked(n) ==
  /\ flow[n] = "awaitPerm"
  /\ \E permissionState \in PermissionStates, proceed \in BOOLEAN :
     /\ lastCall' = [op |-> "micFailure", of |-> n, permissionState |-> permissionState,
                     asked |-> permissionState # "denied",
                     proceed |-> permissionState # "denied" /\ proceed]
     /\ IF micFallback(permissionState, proceed) = "denied"
       THEN /\ instructions' = TRUE
            /\ status' = "Microphone permission is denied."
            /\ startDisabled' = FALSE
            /\ stopDisabled' = TRUE
            /\ flow' = [flow EXCEPT ![n] = "returned"]
            /\ UNCHANGED <<micStream, wantSys>>
       ELSE IF micFallback(permissionState, proceed) = "declined"
       THEN /\ status' = "Recording cancelled because microphone is required."
            /\ startDisabled' = FALSE
            /\ stopDisabled' = TRUE
            /\ flow' = [flow EXCEPT ![n] = "returned"]
            /\ UNCHANGED <<instructions, micStream, wantSys>>
       ELSE /\ micStream' = NULL
            /\ flow' = [flow EXCEPT ![n] = "awaitDisplay"]
            /\ UNCHANGED <<uiVars, wantSys>>
  /\ lastTeardown' = <<>>
  /\ lastBlob' = NoBlob
  /\ UNCHANGED <<pageVars, prefVars, errored, askVars, autoStart, nAttempts, live, ctxOpen, pollActive,
                 combinedStream, displayStream, audioContext, closeRejected,
                 endedPending, recVars, chunkVars, sinkVars, reactVars>>

\* STEP 2: getDisplayMedia rejected.  The window recorder reports the
\* silent error names as a cancellation; the legacy script reports a failure.
DisplayRejected(n) ==
  /\ program \in {"window", "legacy"}
  /\ flow[n] = "awaitDisplay"
  /\ \E errorName \in ErrorNames, message \in Messages :
       LET isUserCancellation == program = "window" /\ errorName \in silentErrorNames
           r == stopAllTracks(Resources, "mic", micStream)
       IN /\ status' = IF isUserCancellation
                       THEN "Ready. Screen sharing was cancelled."
                       ELSE "Failed to start display capture"
          \* the window recorder reads err.name, and err.message unless it
          \* takes the error for a cancellation
          /\ lastCall' = IF program # "window" THEN NoCall
                         ELSE [op |-> "displayError", of |-> n, name |-> errorName,
                               message |-> IF isUserCancellation THEN "" ELSE message,
                               detail |-> IF isUserCancellation THEN ""
                                          ELSE failureDetail(errorName, message)]
          /\ live' = r.live
          /\ lastTeardown' = r.log
          /\ micStream' = NULL
  /\ lastBlob' = NoBlob
  /\ flow' = [flow EXCEPT ![n] = "returned"]
  /\ startDisabled' = FALSE
  /\ stopDisabled' = TRUE
  /\ wantSys' = [wantSys EXCEPT ![n] = FALSE]
  /\ UNCHANGED <<pageVars, prefVars, errored, askVars, autoStart, nAttempts, ctxOpen, pollActive,
                 combinedStream, displayStream, audioContext, closeRejected, instructions,
                 endedPending, recVars, chunkVars, sinkVars, reactVars>>

\* Fault seeding: a mixer that builds its audio graph whatever the inputs.
createCombinedStreamAlwaysMix(r, d, m) ==
  [r EXCEPT !.combinedStream = d, !.audioContext = d,
            !.ctxOpen = @ \cup {d}, !.live[d] = @ \cup {"mixed"}]

\* Fault seeding: a connectAudioSource without its audio-track test.
connectAudioSourceUnchecked(hasAudioTracks) == 1

\* ---- STEP 3: audio mixing ----
\* d is the display stream, m the microphone stream or NULL.  The output
\* stream, its AudioContext and its mixed track are numbered d; the caller
\* assigns the returned stream to combinedStream.
createCombinedStreamUsingAudioContext(r, d, m) ==
  LET hasDisplayAudio == "sysaudio" \in r.live[d]
      hasMicAudio     == m # NULL
  IN  IF ~hasDisplayAudio /\ ~hasMicAudio
      THEN [r EXCEPT !.combinedStream = d, !.audioContext = NULL]
      ELSE [r EXCEPT !.combinedStream = d, !.audioContext = d,
                     !.ctxOpen = @ \cup {d},
                     !.live[d] = @ \cup {"mixed"}]

\* connectAudioSource(stream), for a stream that is not null: the number of
\* source nodes it connects into the destination.
connectAudioSource(hasAudioTracks) == IF hasAudioTracks THEN 1 ELSE 0

\* The source nodes connected by one createCombinedStreamUsingAudioContext
\* call: connectAudioSource(displayStream), and connectAudioSource(micStream)
\* under "if (hasMicAudio)".
mixConnections(r, d, m) ==
  connectAudioSource("sysaudio" \in r.live[d])
    + (IF m # NULL THEN connectAudioSource(TRUE) ELSE 0)

\* What a createCombinedStreamUsingAudioContext call that took r0 to r did:
\* whether it created an AudioContext, the audio tracks of the stream it
\* returned, and the source nodes it connected.
mixReport(r0, r, d, m) ==
  [context     |-> d \in r.ctxOpen \ r0.ctxOpen,
   audioTracks |-> Cardinality((r.live[d] \cap StreamTracks("combined")) \ {"video"}),
   connections |-> IF d \in r.ctxOpen \ r0.ctxOpen THEN mixConnections(r0, d, m) ELSE 0]

\* attachDisplayEndHandlers: the 'ended' listener and the 1 s poll.
attachDisplayEndHandlers(r, d) ==
  IF d = NULL THEN r
  ELSE [r EXCEPT !.pollActive = @ \cup {d}]

\* The "Cleanup" of the mixing-failure path.
mixFailureCleanup(r) ==
  stopAllTracks(stopAllTracks(r, "display", r.displayStream), "mic", r.micStream)

\* The "Cleanup" of the MediaRecorder construction and start failure paths.
recorderFailureCleanup(r) ==
  LET r1 == stopAllTracks(r, "combined", r.combinedStream)
      r2 == stopAllTracks(r1, "display", r1.displayStream)
  IN  stopAllTracks(r2, "mic", r2.micStream)

Outcomes == {"recording", "mixFailed", "ctorFailed", "startFailed"}

failureStatusNone(outcome) == "Preparing..."

\* The status logged by the catch block of STEP 3, STEP 5 or STEP 7.
failureStatus(outcome) ==
  CASE outcome = "mixFailed" -> "Failed to prepare audio mixing"
    [] outcome = "ctorFailed" -> "Recording failed"
    [] outcome = "startFailed" -> "Could not start recorder"

controlsLeftDisabled(outcome) ==
  [startDisabled |-> TRUE, stopDisabled |-> outcome # "recording"]

\* The buttons as the flow leaves them after the display capture: "Reset UI"
\* in the catch blocks of STEP 3, STEP 5 and STEP 7, "Update UI for active
\* recording" at the end.
controlsAfterStart(outcome) ==
  [startDisabled |-> outcome = "recording", stopDisabled |-> outcome # "recording"]

\* STEP 2 resolved, then STEPS 3 to 7: getDisplayMedia resolved; everything
\* up to the return of startRecordingFlow follows without another task.
\* Only the window recorder attaches the end-of-capture handlers.
DisplayResolved(n) ==
  /\ program \in {"window", "legacy"}
  /\ flow[n] = "awaitDisplay"
  /\ \E hasAudio \in (IF wantSys[n] THEN BOOLEAN ELSE {FALSE}), outcome \in Outcomes :
       LET r0 == [Resources EXCEPT !.displayStream = n,
                     !.live[n] = @ \cup (IF hasAudio THEN {"video", "sysaudio"} ELSE {"video"})]
           r1 == IF program = "window" THEN attachDisplayEndHandlers(r0, n) ELSE r0
           r2 == createCombinedStreamUsingAudioContext(r1, n, micStream)
       IN \* what can throw in STEP 3 is new AudioContext(), reached only with audio to mix
          /\ outcome = "mixFailed" => (hasAudio \/ micStream # NULL)
          /\ CASE outcome = "mixFailed" ->
                    /\ SetResources(mixFailureCleanup(r1))
                    /\ lastTeardown' = mixFailureCleanup(r1).log
                    /\ status' = failureStatus(outcome)
                    /\ startDisabled' = controlsAfterStart(outcome).startDisabled
                    /\ stopDisabled' = controlsAfterStart(outcome).stopDisabled
                    /\ UNCHANGED <<recorder, recordedChunks, rec>>
               [] outcome = "ctorFailed" ->
                    /\ SetResources(recorderFailureCleanup(r2))
                    /\ lastTeardown' = recorderFailureCleanup(r2).log
                    /\ status' = failureStatus(outcome)
                    /\ startDisabled' = controlsAfterStart(outcome).startDisabled
                    /\ stopDisabled' = controlsAfterStart(outcome).stopDisabled
                    /\ UNCHANGED <<recorder, recordedChunks, rec>>
               [] outcome = "startFailed" ->
                    /\ SetResources(recorderFailureCleanup(r2))
                    /\ lastTeardown' = recorderFailureCleanup(r2).log
                    /\ recorder' = n
                    /\ recordedChunks' = <<>>
                    /\ status' = failureStatus(outcome)
                    /\ startDisabled' = controlsAfterStart(outcome).startDisabled
                    /\ stopDisabled' = controlsAfterStart(outcome).stopDisabled
                    /\ UNCHANGED rec
               [] outcome = "recording" ->
                    /\ SetResources(r2)
                    /\ lastTeardown' = <<>>
                    /\ recorder' = n
                    /\ rec' = [rec EXCEPT ![n] = "recording"]
                    /\ recordedChunks' = <<>>
                    /\ status' = "Recording... Click Stop to finish."
                    /\ startDisabled' = controlsAfterStart(outcome).startDisabled
                    /\ stopDisabled' = controlsAfterStart(outcome).stopDisabled
          /\ lastCall' = [op |-> "start", of |-> n, outcome |-> outcome,
                          displayAudio |-> hasAudio, micAudio |-> micStream # NULL,
                          mix |-> mixReport(r1, IF outcome = "mixFailed" THEN r1 ELSE r2,
                                            n, micStream),
                          mimeType |-> getSupportedMimeType(supports),
                          recorderMimeType |->
                            recorderMimeType(getSupportedMimeType(supports))]
  /\ lastBlob' = NoBlob
  /\ flow' = [flow EXCEPT ![n] = "returned"]
  /\ wantSys' = [wantSys EXCEPT ![n] = FALSE]
  /\ UNCHANGED <<pageVars, prefVars, errored, askVars, autoStart, nAttempts, instructions, endedPending,
                 delivered, nChunks, stopCalls, sinkVars, reactVars>>

\* ---- stopping ----
\* recorder && recorder.state !== 'inactive'
RecorderActive == recorder # NULL /\ rec[recorder] = "recording"

\* stopRecordingFlow, first branch: recorder.stop() makes recorder.state
\* 'inactive' at once and queues the task that fires the recorder's last
\* dataavailable and its stop event ("stopping" is that inactive recorder
\* with the task due).
requestRecorderStop ==
  /\ status' = "Stopping..."
  /\ rec' = [rec EXCEPT ![recorder] = "stopping"]
  /\ stopCalls' = countStops(rec')
  /\ UNCHANGED <<startDisabled, stopDisabled, instructions>>

\* stopRecordingFlow, second branch: manual cleanup.
manualCleanup ==
  LET r == popupCleanup(Resources)
  IN /\ SetResources(r)
     /\ lastTeardown' = r.log
     /\ status' = "Stopped."
     /\ startDisabled' = FALSE
     /\ stopDisabled' = TRUE
     /\ rec' = allTracksEnded(rec, r.live)
     /\ stopCalls' = countStops(rec')
     /\ UNCHANGED instructions

stopRecordingFlow ==
  IF RecorderActive
  THEN requestRecorderStop /\ lastTeardown' = <<>> /\ UNCHANGED resVars
  ELSE manualCleanup

\* Stop button.
StopClick ==
  /\ program \in {"window", "legacy"}
  /\ ~stopDisabled
  /\ stopRecordingFlow
  /\ lastBlob' = NoBlob
  /\ lastCall' = NoCall
  /\ UNCHANGED <<pageVars, prefVars, errored, askVars, autoStart, flowVars, recorder, endedPending, chunkVars,
                 sinkVars, reactVars>>

\* ---- end-of-capture detection ----
\* The platform ends the display capture ("Stop sharing" in the browser UI):
\* the display tracks end and, where a listener is attached, the video
\* track's 'ended' event is queued.
ExternalEnd(n) ==
  /\ "video" \in live[n]
  /\ live' = [live EXCEPT ![n] = @ \ StreamTracks("display")]
  /\ endedPending' = IF program = "window" THEN endedPending \cup {n} ELSE endedPending
  /\ rec' = allTracksEnded(rec, live')
  /\ stopCalls' = countStops(rec')
  /\ NoTrace
  /\ UNCHANGED <<pageVars, prefVars, errored, askVars, autoStart, flowVars, recorder, ctxOpen,
                 pollActive, combinedStream, displayStream, micStream, audioContext,
                 closeRejected, uiVars, chunkVars, sinkVars, reactVars>>

\* Method 1: the 'ended' listener attached by attempt n.
EndedListener(n) ==
  /\ n \in endedPending
  /\ endedPending' = endedPending \ {n}
  /\ IF RecorderActive
     THEN stopRecordingFlow
     ELSE /\ lastTeardown' = <<>>
          /\ UNCHANGED <<uiVars, rec, stopCalls, resVars>>
  /\ lastBlob' = NoBlob
  /\ lastCall' = NoCall
  /\ UNCHANGED <<pageVars, prefVars, errored, askVars, autoStart, flowVars, recorder, chunkVars, sinkVars, reactVars>>

\* Method 2: a tick of the interval set by attempt n that sees readyState
\* 'ended'; stopRecordingFlow is entered with an active recorder only.
PollTick(n) ==
  /\ n \in pollActive
  /\ "video" \notin live[n]
  /\ pollActive' = pollActive \ {n}
  /\ IF RecorderActive
     THEN requestRecorderStop
     ELSE UNCHANGED <<uiVars, rec, stopCalls>>
  /\ NoTrace
  /\ UNCHANGED <<pageVars, prefVars, errored, askVars, autoStart, flowVars, recorder, chunkVars,
                 live, ctxOpen, combinedStream, displayStream, micStream, audioContext,
                 closeRejected, endedPending, sinkVars, reactVars>>

\* ---- recorder events ----
\* A chunk is named by its recorder and its position among that recorder's
\* non-empty chunks; size 0 stands for an empty chunk, which ondataavailable
\* ignores.
Chunk(n) == <<n, Len(delivered[n]) + 1>>

\* The non-empty chunks a recorder has fired, after one more dataavailable.
fire(list, n, size) == IF size > 0 THEN Append(list, Chunk(n)) ELSE list

\* Fault seeding: a handler that puts the new chunk in front.
ondataavailableUnshift(list, n, size) == IF size > 0 THEN <<Chunk(n)>> \o list ELSE list

\* recorder.ondataavailable: push the chunk unless it is empty.
ondataavailable(list, n, size) == IF size > 0 THEN Append(list, Chunk(n)) ELSE list

\* A timeslice chunk of recorder n.  Only the legacy script passes a
\* timeslice: recorder.start(1000).
DataAvailable(n) ==
  /\ program = "legacy"
  /\ rec[n] = "recording"
  /\ nChunks < MaxChunks
  /\ \E size \in {0, 1} :
       /\ recordedChunks' = ondataavailable(recordedChunks, n, size)
       /\ delivered' = [delivered EXCEPT ![n] = fire(@, n, size)]
       /\ nChunks' = nChunks + size
  /\ NoTrace
  /\ UNCHANGED <<pageVars, prefVars, errored, askVars, autoStart, flowVars, resVars, uiVars, endedPending, recVars,
                 sinkVars, reactVars>>

\* reader.onerror: a failed read calls fallbackDownload(blob) once.
readerOnError(readOk) == IF readOk THEN 0 ELSE 1

\* Fault seeding: an onloadend that goes on to store after a failed read.
onloadendUnchecked(resultIsNull) == TRUE

\* reader.onloadend, which fires after 'load' and after 'error' alike: whether
\* chrome.storage.local.set is reached.  After a failed read reader.result
\* is null, and reading dataUrl.length throws before the call.
onloadend(resultIsNull) == ~resultIsNull

\* The callback of chrome.storage.local.set: with lastError it calls
\* fallbackDownload(blob) and returns; otherwise the stored recording is
\* what the preview page opens.  One hand-off either way.
storageSetCallback(lastError) == IF lastError THEN 1 ELSE 1

\* The sinks that the recording built by one handleRecorderStop reaches.
sinksReached(readOk, lastError) ==
  readerOnError(readOk)
    + (IF onloadend(~readOk) THEN storageSetCallback(lastError) ELSE 0)

\* handleRecorderStop of the window recorder, for recorder n.  The Blob is
\* built from recordedChunks and given to a FileReader; the finally block
\* cleans up and resets the UI.  The FileReader and storage callbacks run in
\* later tasks and touch nothing but the recording they were given, so their
\* outcome (readOk, lastError) is taken here, after the cleanup.
handleRecorderStop(n, parts, fired, readOk, lastError) ==
  LET r == cleanupRecordingResources(Resources)
      k == sinksReached(readOk, lastError)
  IN /\ lastBlob' = [of |-> n, parts |-> parts, fired |-> fired,
                     released |-> (k > 0 => ReleasedIn(r, n)),
                     type |-> "video/webm"]
     /\ handoffs' = [handoffs EXCEPT ![n] = @ + k]
     /\ SetResources(r)
     /\ lastTeardown' = r.log
     /\ rec' = allTracksEnded([rec EXCEPT ![n] = "inactive"], r.live)
     /\ status' = "Recording complete! Preview opened in new tab."

\* handleRecorderStop of the legacy script, for recorder n: the download is
\* started in the try block, the cleanup follows in the finally block.
legacyHandleRecorderStop(n, parts, fired) ==
  LET r == legacyCleanup(Resources)
  IN /\ lastBlob' = [of |-> n, parts |-> parts, fired |-> fired,
                     released |-> ReleasedIn(Resources, n),
                     type |-> "video/webm"]
     /\ handoffs' = [handoffs EXCEPT ![n] = @ + 1]
     /\ SetResources(r)
     /\ lastTeardown' = r.log
     /\ rec' = allTracksEnded([rec EXCEPT ![n] = "inactive"], r.live)
     /\ status' = "Recording saved."

\* The task queued when recorder n was stopped: its last dataavailable, then
\* its stop event, which runs handleRecorderStop.
RecorderStopEvent(n) ==
  /\ program \in {"window", "legacy"}
  /\ rec[n] = "stopping"
  /\ \E size \in {0, 1}, readOk \in BOOLEAN, lastError \in BOOLEAN :
       LET parts == ondataavailable(recordedChunks, n, size)
           fired == fire(delivered[n], n, size)
       IN IF program = "window"
          THEN \* lastError is read only by the callback of a storage call that was made
               /\ lastError => readOk
               /\ handleRecorderStop(n, parts, fired, readOk, lastError)
          ELSE /\ readOk /\ ~lastError
               /\ legacyHandleRecorderStop(n, parts, fired)
  /\ stopCalls' = countStops(rec')
  /\ finalizeCalls' = [finalizeCalls EXCEPT ![n] = @ + 1]
  /\ delivered' = [delivered EXCEPT ![n] = <<>>]
  /\ lastCall' = NoCall
  /\ recordedChunks' = <<>>
  /\ startDisabled' = FALSE
  /\ stopDisabled' = TRUE
  /\ UNCHANGED <<pageVars, prefVars, errored, askVars, autoStart, flowVars, recorder, endedPending, nChunks,
                 instructions, reactVars>>

\* The recorder of attempt n fires an error event.  The platform either has
\* inactivated the recorder, with its last dataavailable and its stop event
\* to follow the error event, or (builds that only dispatch the event) has
\* left it recording.  recorder.onerror logs the error in the status line.
RecorderError(n) ==
  /\ program # "react"
  /\ rec[n] = "recording"
  /\ \E fatal \in BOOLEAN :
       /\ rec' = [rec EXCEPT ![n] = IF fatal THEN "stopping" ELSE @]
       /\ lastCall' = [op |-> "error", of |-> n, fatal |-> fatal]
  /\ stopCalls' = countStops(rec')
  /\ status' = "Recorder error"
  /\ errored' = errored \cup {n}
  /\ lastTeardown' = <<>>
  /\ lastBlob' = NoBlob
  /\ UNCHANGED <<pageVars, prefVars, askVars, autoStart, flowVars, resVars, startDisabled, stopDisabled,
                 instructions, endedPending, recorder, chunkVars, sinkVars, reactVars>>

\* ==== the React popup and startRecorder() ====

\* options.mimeType || 'video/webm; codecs=vp9,opus': the popup passes no
\* mimeType.
controllerMimeType == "video/webm; codecs=vp9,opus"

\* recorder.mimeType of the recorder startRecorder makes: the constructor
\* takes the requested type where the browser supports it, and otherwise
\* throws, and the recorder is made without options.
controllerRecorderMimeType(browser) ==
  IF browser[1] = "yes" THEN controllerMimeType ELSE defaultMimeType

\* handleStart up to its first await, the dynamic import of the recorder
\* module.  RecorderControls renders the Start button while !isRecording.
HandleStartClick ==
  /\ program = "react"
  /\ ~isRecording
  /\ nAttempts < MaxCalls
  /\ nAttempts' = nAttempts + 1
  /\ flow' = [flow EXCEPT ![nAttempts + 1] = "awaitImport"]
  /\ NoTrace
  /\ UNCHANGED <<pageVars, prefVars, errored, askVars, autoStart, wantSys, resVars, uiVars, endedPending, recVars,
                 chunkVars, sinkVars, reactVars>>

\* The import resolved: startRecorder() runs up to getDisplayMedia.
ImportResolved(n) ==
  /\ flow[n] = "awaitImport"
  /\ flow' = [flow EXCEPT ![n] = "awaitDisplay"]
  /\ NoTrace
  /\ UNCHANGED <<pageVars, prefVars, errored, askVars, autoStart, nAttempts, wantSys, resVars, uiVars, endedPending,
                 recVars, chunkVars, sinkVars, reactVars>>

\* startRecorder 1): getDisplayMedia rejected, so startRecorder() rejects and
\* handleStart alerts.
ScreenRejected(n) ==
  /\ program = "react"
  /\ flow[n] = "awaitDisplay"
  /\ flow' = [flow EXCEPT ![n] = "returned"]
  /\ NoTrace
  /\ UNCHANGED <<pageVars, prefVars, errored, askVars, autoStart, nAttempts, wantSys, resVars, uiVars, endedPending,
                 recVars, chunkVars, sinkVars, reactVars>>

\* startRecorder 1): getDisplayMedia({video: true, audio: true}) resolved.
ScreenResolved(n) ==
  /\ program = "react"
  /\ flow[n] = "awaitDisplay"
  /\ \E hasAudio \in BOOLEAN :
       /\ live' = [live EXCEPT ![n] = IF hasAudio THEN {"video", "sysaudio"} ELSE {"video"}]
       /\ screenAudio' = [screenAudio EXCEPT ![n] = hasAudio]
  /\ flow' = [flow EXCEPT ![n] = "awaitMic"]
  /\ NoTrace
  /\ UNCHANGED <<pageVars, prefVars, errored, micPrompts, autoStart, nAttempts, wantSys, ctxOpen, pollActive,
                 combinedStream, displayStream, micStream, audioContext, closeRejected,
                 uiVars, endedPending, recVars, chunkVars, sinkVars, reactVars>>

ControllerOutcomes == {"recording", "ctorFailed", "startFailed"}

\* startRecorder 3): the source nodes connected into the destination, one
\* for screenStream if it has audio tracks, one for micStream if getUserMedia
\* resolved.
controllerConnections(hasScreenAudio, hasMic) ==
  (IF hasScreenAudio THEN 1 ELSE 0) + (IF hasMic THEN 1 ELSE 0)

\* startRecorder 2) to 5): getUserMedia settled (a rejection is tolerated);
\* the AudioContext, the final stream and the MediaRecorder are created and
\* recorder.start(1000) is called.  When both MediaRecorder constructions
\* throw, or start() throws, startRecorder() rejects where it stands.
\* On success handleStart stores the controller and sets isRecording.
MicSettled(n) ==
  /\ program = "react"
  /\ flow[n] = "awaitMic"
  /\ \E granted \in BOOLEAN, outcome \in ControllerOutcomes :
       /\ live' = [live EXCEPT ![n] = @ \cup (IF granted THEN {"mic", "mixed"} ELSE {"mixed"})]
       /\ IF outcome = "recording"
          THEN /\ rec' = [rec EXCEPT ![n] = "recording"]
               /\ recorderRef' = n
               /\ isRecording' = TRUE
          ELSE UNCHANGED <<rec, recorderRef, isRecording>>
       /\ lastCall' = [op |-> "start", of |-> n, outcome |-> outcome,
                       displayAudio |-> screenAudio[n], micAudio |-> granted,
                       mix |-> [context |-> TRUE, audioTracks |-> 1,
                                connections |-> controllerConnections(screenAudio[n], granted)],
                       mimeType |-> controllerMimeType,
                       recorderMimeType |-> controllerRecorderMimeType(supports)]
  /\ screenAudio' = [screenAudio EXCEPT ![n] = FALSE]
  /\ ctxOpen' = ctxOpen \cup {n}
  /\ flow' = [flow EXCEPT ![n] = "returned"]
  /\ lastTeardown' = <<>>
  /\ lastBlob' = NoBlob
  /\ UNCHANGED <<pageVars, prefVars, errored, micPrompts, autoStart, nAttempts, wantSys, pollActive,
                 combinedStream, displayStream, micStream, audioContext, closeRejected,
                 uiVars, endedPending, recorder, stopCalls, chunkVars, sinkVars,
                 chunks, onstop, stopPromises>>

\* The controller's stop(): the new promise's executor installs
\* recorder.onstop and calls recorder.stop(), which throws on an inactive
\* recorder and so rejects the promise.
stop(c) ==
  LET k == Len(stopPromises[c]) + 1
  IN /\ onstop' = [onstop EXCEPT ![c] = k]
     /\ IF rec[c] \in {"recording", "paused"}
        THEN /\ rec' = [rec EXCEPT ![c] = "stopping"]
             /\ stopPromises' = [stopPromises EXCEPT ![c] = Append(@, "pending")]
        ELSE /\ stopPromises' = [stopPromises EXCEPT ![c] = Append(@, "rejected")]
             /\ UNCHANGED rec
     /\ stopCalls' = countStops(rec')

\* handleStop up to its await of stop().  RecorderControls renders the Stop
\* button while isRecording.
HandleStopClick ==
  /\ program = "react"
  /\ isRecording
  /\ recorderRef # NULL
  /\ Len(stopPromises[recorderRef]) < MaxStopCalls
  /\ stop(recorderRef)
  /\ NoTrace
  /\ UNCHANGED <<pageVars, prefVars, errored, askVars, autoStart, flowVars, resVars, uiVars, endedPending, recorder,
                 chunkVars, sinkVars, recorderRef, isRecording, chunks>>

\* recorder.state as scripts read it: a recorder whose stop task is still
\* queued is already 'inactive'.
recorderState(s) == IF s \in {"recording", "paused"} THEN s ELSE "inactive"

\* MediaRecorder.pause(): throws InvalidStateError on an inactive recorder,
\* returns at once on a paused one, and otherwise pauses.
mediaRecorderPause(s) ==
  IF recorderState(s) = "inactive" THEN [state |-> s, threw |-> TRUE]
  ELSE [state |-> "paused", threw |-> FALSE]

\* MediaRecorder.resume(): throws InvalidStateError on an inactive recorder,
\* returns at once on a recording one, and otherwise resumes.
mediaRecorderResume(s) ==
  IF recorderState(s) = "inactive" THEN [state |-> s, threw |-> TRUE]
  ELSE [state |-> "recording", threw |-> FALSE]

pauseUnguarded(s) == mediaRecorderPause(s)

\* The controller's pause().
pause(s) ==
  IF recorderState(s) = "recording" THEN mediaRecorderPause(s)
  ELSE [state |-> s, threw |-> FALSE]

\* The controller's resume().
resume(s) ==
  IF recorderState(s) = "paused" THEN mediaRecorderResume(s)
  ELSE [state |-> s, threw |-> FALSE]

\* pause() called on the controller of call n by the holder of its only
\* reference, recorderRef.
ControllerPause(n) ==
  /\ program = "react"
  /\ recorderRef = n
  /\ rec' = [rec EXCEPT ![n] = pause(@).state]
  /\ lastCall' = [op |-> "pause", of |-> n, threw |-> pause(rec[n]).threw]
  /\ lastTeardown' = <<>>
  /\ lastBlob' = NoBlob
  /\ UNCHANGED <<pageVars, prefVars, errored, askVars, autoStart, flowVars, resVars, uiVars, endedPending, recorder,
                 stopCalls, chunkVars, sinkVars, reactVars>>

\* resume() called on the controller of call n.
ControllerResume(n) ==
  /\ program = "react"
  /\ recorderRef = n
  /\ rec' = [rec EXCEPT ![n] = resume(@).state]
  /\ lastCall' = [op |-> "resume", of |-> n, threw |-> resume(rec[n]).threw]
  /\ lastTeardown' = <<>>
  /\ lastBlob' = NoBlob
  /\ UNCHANGED <<pageVars, prefVars, errored, askVars, autoStart, flowVars, resVars, uiVars, endedPending, recorder,
                 stopCalls, chunkVars, sinkVars, reactVars>>

\* The recorder of call n fires an error event, the platform having
\* inactivated it or not as for RecorderError.  recorder.onerror calls
\* onError, which the popup sets to a console.error.
ControllerError(n) ==
  /\ program = "react"
  /\ rec[n] \in {"recording", "paused"}
  /\ \E fatal \in BOOLEAN :
       /\ rec' = [rec EXCEPT ![n] = IF fatal THEN "stopping" ELSE @]
       /\ lastCall' = [op |-> "error", of |-> n, fatal |-> fatal]
  /\ stopCalls' = countStops(rec')
  /\ errored' = errored \cup {n}
  /\ lastTeardown' = <<>>
  /\ lastBlob' = NoBlob
  /\ UNCHANGED <<pageVars, prefVars, askVars, autoStart, flowVars, resVars, uiVars, endedPending, recorder,
                 chunkVars, sinkVars, reactVars>>

\* A timeslice chunk of the recorder of call n: recorder.start(1000).
ControllerDataAvailable(n) ==
  /\ program = "react"
  /\ rec[n] = "recording"
  /\ nChunks < MaxChunks
  /\ \E size \in {0, 1} :
       /\ chunks' = [chunks EXCEPT ![n] = ondataavailable(@, n, size)]
       /\ delivered' = [delivered EXCEPT ![n] = fire(@, n, size)]
       /\ nChunks' = nChunks + size
  /\ NoTrace
  /\ UNCHANGED <<pageVars, prefVars, errored, askVars, autoStart, flowVars, resVars, uiVars, endedPending, recVars,
                 recordedChunks, sinkVars, recorderRef, isRecording, onstop, stopPromises>>

\* Fault seeding: a handler that releases only where there is a microphone
\* stream.
onstopReleaseWithMic(r, n) ==
  IF "mic" \in r.live[n]
  THEN [r EXCEPT !.live[n] = {}, !.ctxOpen = @ \ {n}, !.log = Append(@, "closeContext")]
  ELSE r

\* The release steps of recorder.onstop as stop() installs it: the tracks
\* of finalStream, of screenStream and of micStream (when getUserMedia had
\* resolved), then audioCtx.close().
onstopRelease(r, n) ==
  LET r1 == stopAllTracks(r, "combined", n)
      r2 == stopAllTracks(r1, "display", n)
      r3 == IF "mic" \in r.live[n] THEN stopAllTracks(r2, "mic", n) ELSE r2
  IN  [r3 EXCEPT !.ctxOpen = @ \ {n}, !.log = Append(@, "closeContext")]

\* The task queued for the recorder of call n when it is stopped or
\* inactivated: its last dataavailable, then its stop event.  recorder.onstop
\* is set only by stop(); where no stop() was called the stop event has no
\* handler.  The handler releases, builds the Blob from chunks and resolves
\* the promise of the stop() call that installed it; handleStop, awaiting
\* that promise, then clears isRecording and recorderRef.
ControllerStopEvent(n) ==
  /\ program = "react"
  /\ rec[n] = "stopping"
  /\ \E size \in {0, 1} :
       LET parts == ondataavailable(chunks[n], n, size)
           fired == fire(delivered[n], n, size)
           r     == onstopRelease(Resources, n)
           k     == onstop[n]
           resolves == k # 0 /\ stopPromises[n][k] = "pending"
       IN /\ chunks' = [chunks EXCEPT ![n] = parts]
          /\ IF k = 0
             THEN /\ UNCHANGED <<resVars, finalizeCalls>>
                  /\ lastTeardown' = <<>>
                  /\ lastBlob' = NoBlob
                  /\ delivered' = [delivered EXCEPT ![n] = fired]
             ELSE /\ SetResources(r)
                  /\ lastTeardown' = r.log
                  /\ lastBlob' = [of |-> n, parts |-> parts, fired |-> fired,
                                  released |-> ReleasedIn(r, n),
                                  type |-> controllerRecorderMimeType(supports),
                                  mic |-> "mic" \in live[n]]
                  /\ finalizeCalls' = [finalizeCalls EXCEPT ![n] = @ + 1]
                  /\ delivered' = [delivered EXCEPT ![n] = <<>>]
          /\ lastCall' = NoCall
          /\ IF resolves
             THEN /\ stopPromises' = [stopPromises EXCEPT ![n][k] = "resolved"]
                  /\ handoffs' = [handoffs EXCEPT ![n] = @ + 1]
                  /\ isRecording' = FALSE
                  /\ recorderRef' = NULL
             ELSE UNCHANGED <<stopPromises, handoffs, isRecording, recorderRef>>
  /\ rec' = [rec EXCEPT ![n] = "inactive"]
  /\ UNCHANGED <<pageVars, prefVars, errored, askVars, autoStart, flowVars, uiVars, endedPending, recorder,
                 stopCalls, recordedChunks, nChunks, onstop>>

\* ---- the page ----
Next ==
  \/ StartClick
  \/ AutoStartTimer
  \/ StopClick
  \/ HandleStartClick
  \/ HandleStopClick
  \/ \E n \in Attempts :
       \/ ChromePermissionAnswered(n)
       \/ MicGranted(n)
       \/ MicRejected(n)
       \/ MicPermissionChecked(n)
       \/ DisplayRejected(n)
       \/ DisplayResolved(n)
       \/ ExternalEnd(n)
       \/ EndedListener(n)
       \/ PollTick(n)
       \/ DataAvailable(n)
       \/ RecorderStopEvent(n)
       \/ ImportResolved(n)
       \/ ScreenRejected(n)
       \/ ScreenResolved(n)
       \/ MicSettled(n)
       \/ ControllerPause(n)
       \/ ControllerResume(n)
       \/ ControllerDataAvailable(n)
       \/ ControllerStopEvent(n)

Spec == Init /\ [][Next]_vars

\* ---- one session, with a failing encoder ----
\* The page from load through one start, where the recorder can also fire
\* error events.
NextEncoderError ==
  \/ (nAttempts = 0 /\ StartClick)
  \/ (nAttempts = 0 /\ AutoStartTimer)
  \/ (nAttempts = 0 /\ HandleStartClick)
  \/ StopClick
  \/ HandleStopClick
  \/ \E n \in Attempts :
       \/ ChromePermissionAnswered(n)
       \/ MicGranted(n)
       \/ MicRejected(n)
       \/ MicPermissionChecked(n)
       \/ DisplayRejected(n)
       \/ DisplayResolved(n)
       \/ ExternalEnd(n)
       \/ EndedListener(n)
       \/ PollTick(n)
       \/ DataAvailable(n)
       \/ RecorderStopEvent(n)
       \/ RecorderError(n)
       \/ ImportResolved(n)
       \/ ScreenRejected(n)
       \/ ScreenResolved(n)
       \/ MicSettled(n)
       \/ ControllerError(n)
       \/ ControllerPause(n)
       \/ ControllerResume(n)
       \/ ControllerDataAvailable(n)
       \/ ControllerStopEvent(n)

SpecEncoderError == Init /\ [][NextEncoderError]_vars

\* ---- one session of the window recorder whose 'ended' event is lost ----
\* The window recorder from load through one start, the 'ended' event of the
\* display video track never being delivered.  The interval timer of the
\* poll keeps firing and a queued recorder stop event is delivered.
InitWindow == Init /\ program = "window"

NextNoEndedEvent ==
  \/ (nAttempts = 0 /\ StartClick)
  \/ (nAttempts = 0 /\ AutoStartTimer)
  \/ StopClick
  \/ \E n \in Attempts :
       \/ MicGranted(n)
       \/ MicRejected(n)
       \/ MicPermissionChecked(n)
       \/ DisplayRejected(n)
       \/ DisplayResolved(n)
       \/ ExternalEnd(n)
       \/ PollTick(n)
       \/ RecorderStopEvent(n)

SpecNoEndedEvent ==
  /\ InitWindow
  /\ [][NextNoEndedEvent]_vars
  /\ \A n \in Attempts : WF_vars(PollTick(n)) /\ WF_vars(RecorderStopEvent(n))

\* ---- closing the popup ----
\* cleanupOnClose, and the body of the legacy beforeunload listener:
\* recorder.stop() on an active recorder, close() on the context of
\* combinedStream, stopAllTracks on the three streams.  No reference is
\* cleared and the poll is left alone.
cleanupOnClose(r) ==
  LET r1 == closeAudioContext(r)
      r2 == stopAllTracks(r1, "combined", r1.combinedStream)
      r3 == stopAllTracks(r2, "display", r2.displayStream)
  IN  stopAllTracks(r3, "mic", r3.micStream)

\* What the beforeunload listener releases.  The window recorder's listener
\* returns the confirmation message, before its call of cleanupOnClose,
\* whenever the recorder is active; the legacy listener has no such test.
beforeunload(r) ==
  IF program = "window" /\ RecorderActive THEN r ELSE cleanupOnClose(r)

\* The document is gone: its beforeunload listener ran and the unload went
\* ahead.
PageGone == lastCall.op = "beforeunload" /\ lastCall.unloads

\* beforeunload fires.  Where the window recorder's listener asked for
\* confirmation the user can stay on the page; otherwise the page unloads.
BeforeUnload ==
  /\ program \in {"window", "legacy"}
  /\ ~PageGone
  /\ LET asks == program = "window" /\ RecorderActive
         r == beforeunload(Resources)
         stops == ~asks /\ RecorderActive
     IN /\ SetResources(r)
        /\ lastTeardown' = r.log
        /\ rec' = allTracksEnded(IF stops THEN [rec EXCEPT ![recorder] = "stopping"] ELSE rec,
                                 r.live)
        /\ \E unloads \in (IF asks THEN BOOLEAN ELSE {TRUE}) :
             lastCall' = [op |-> "beforeunload", recording |-> RecorderActive,
                          unloads |-> unloads]
  /\ stopCalls' = countStops(rec')
  /\ lastBlob' = NoBlob
  /\ UNCHANGED <<pageVars, prefVars, errored, askVars, autoStart, flowVars, recorder, uiVars, endedPending,
                 chunkVars, sinkVars, reactVars>>

\* One session of either popup script, closed at any moment.
InitPopup == Init /\ program \in {"window", "legacy"}

NextUnload ==
  \/ BeforeUnload
  \/ (~PageGone /\ nAttempts = 0 /\ StartClick)
  \/ (~PageGone /\ nAttempts = 0 /\ AutoStartTimer)
  \/ (~PageGone /\ StopClick)
  \/ \E n \in Attempts :
       \/ (~PageGone /\ ChromePermissionAnswered(n))
       \/ (~PageGone /\ MicGranted(n))
       \/ (~PageGone /\ MicRejected(n))
       \/ (~PageGone /\ MicPermissionChecked(n))
       \/ (~PageGone /\ DisplayRejected(n))
       \/ (~PageGone /\ DisplayResolved(n))
       \/ (~PageGone /\ ExternalEnd(n))
       \/ (~PageGone /\ EndedListener(n))
       \/ (~PageGone /\ PollTick(n))
       \/ (~PageGone /\ DataAvailable(n))
       \/ (~PageGone /\ RecorderStopEvent(n))

SpecUnload == InitPopup /\ [][NextUnload]_vars

\* ---- the auto-started window and its preferences ----
\* loadPreferences after its await: chrome.storage.local.get resolved and
\* the checkboxes take the stored values, or it rejected and the catch
\* leaves them as the page's HTML set them.
PreferencesLoaded ==
  /\ program = "window"
  /\ prefsLoad = "pending"
  /\ prefsLoad' = "done"
  /\ \E resolved \in BOOLEAN : checked' = IF resolved THEN stored ELSE checked
  /\ NoTrace
  /\ UNCHANGED <<pageVars, stored, errored, askVars, autoStart, flowVars, resVars, uiVars,
                 endedPending, recVars, chunkVars, sinkVars, reactVars>>

\* The window opened with mode=window and autostart=1: loadPreferences has
\* been called and the 200 ms timer set.  The stored preferences are any,
\* and so are the checkboxes' HTML defaults (popup.html is not in the
\* sources).
InitAutoStart ==
  /\ Loaded(Chromium)
  /\ program = "window"
  /\ prefsLoad = "pending"
  /\ stored \in Preferences
  /\ checked \in Preferences

\* The preference load, the auto-start timer and the session it starts.
NextAutoStart ==
  \/ PreferencesLoaded
  \/ AutoStartTimer
  \/ StopClick
  \/ \E n \in Attempts :
       \/ MicGranted(n)
       \/ MicRejected(n)
       \/ MicPermissionChecked(n)
       \/ DisplayRejected(n)
       \/ DisplayResolved(n)
       \/ RecorderStopEvent(n)

SpecAutoStart == InitAutoStart /\ [][NextAutoStart]_vars

\* ---- the content script in a tab ----
popupVars == <<prefVars, errored, askVars, autoStart, flowVars, resVars, uiVars,
               endedPending, recVars, chunkVars, sinkVars, reactVars, lastTeardown,
               lastBlob, lastCall>>

\* generateSessionId(): an id no earlier call returned.
generateSessionId == nSessions + 1

isNewMeeting(meetingIdentifier) ==
  meetingSessionId = NULL \/ meetingIdentifier # currentMeetingType

\* One run of checkAndNotify, from any of its triggers: the 3 s timer, the
\* 2 s interval, and the 1 s timers set on a URL change and on hashchange.
CheckAndNotify ==
  /\ program = "content"
  /\ LET meetingType       == detectMeetingPage(page)
         meetingIdentifier == getMeetingIdentifier(page)
     IN  IF meetingType = NoMeeting \/ ~isMeetingActive(page)
         THEN /\ IF meetingSessionId # NULL /\ currentMeetingType # NoIdentifier
                 THEN /\ meetingSessionId' = NULL
                      /\ currentMeetingType' = NoIdentifier
                 ELSE UNCHANGED <<meetingSessionId, currentMeetingType>>
              /\ lastCheck' = NoCheck
              /\ UNCHANGED nSessions
         ELSE IF isNewMeeting(meetingIdentifier)
              THEN /\ nSessions < MaxSessions
                   /\ nSessions' = generateSessionId
                   /\ meetingSessionId' = generateSessionId
                   /\ currentMeetingType' = meetingIdentifier
                   /\ lastCheck' = [active |-> TRUE, id |-> meetingIdentifier, sent |-> TRUE]
              ELSE /\ lastCheck' = [active |-> TRUE, id |-> meetingIdentifier, sent |-> FALSE]
                   /\ UNCHANGED <<meetingSessionId, currentMeetingType, nSessions>>
  /\ UNCHANGED <<program, supports, backgroundVars, storeVars, previewVars, page, popupVars>>

\* The document changes under the running script: a navigation of a
\* single-page application, a hash change, the meeting controls appearing or
\* going away.
PageChange ==
  /\ program = "content"
  /\ \E p \in Pages : p # page /\ p.site = page.site /\ page' = p
  /\ UNCHANGED <<program, supports, backgroundVars, storeVars, previewVars, meetingSessionId, currentMeetingType, nSessions,
                 lastCheck, popupVars>>

\* The tab loads a document: the script is injected anew.
DocumentLoad ==
  /\ program = "content"
  /\ page' \in Pages
  /\ meetingSessionId' = NULL
  /\ currentMeetingType' = NoIdentifier
  /\ lastCheck' = NoCheck
  /\ UNCHANGED <<program, supports, backgroundVars, storeVars, previewVars, nSessions, popupVars>>

InitContent ==
  /\ LoadedAs("content", Chromium)
  /\ Untracked
  /\ page \in Pages
  /\ ContentIdle
  /\ BackgroundIdle
  /\ StoreIdle
  /\ PreviewIdle

NextContent == CheckAndNotify \/ PageChange \/ DocumentLoad

SpecContent == InitContent /\ [][NextContent]_vars

\* ==== the background script ====
\* createRecorderWindow: chrome.windows.create is called; the window and the
\* callback come later.
createRecorderWindow ==
  /\ nWindows < MaxWindows
  /\ nWindows' = nWindows + 1
  /\ creating' = creating \cup {nWindows + 1}

\* openRecorderWindow with the stored id tested as the code tests it.
openRecorderWindow ==
  IF recorderWindowId # NULL
  THEN /\ Len(lookups) < MaxLookups
       /\ lookups' = Append(lookups, recorderWindowId)
       /\ UNCHANGED <<creating, nWindows>>
  ELSE /\ createRecorderWindow
       /\ UNCHANGED lookups

otherProgramsVars == <<program, supports, contentVars, storeVars, previewVars, popupVars>>

\* The onMessage listener gets a meetingDetected message of a content script.
MeetingDetected ==
  /\ program = "background"
  /\ openRecorderWindow
  /\ lastFocus' = NULL
  /\ UNCHANGED <<recorderWindowId, windowsOpen, otherProgramsVars>>

\* The toolbar icon is clicked: openRecorderWindow('manual').
ActionClicked ==
  /\ program = "background"
  /\ openRecorderWindow
  /\ lastFocus' = NULL
  /\ UNCHANGED <<recorderWindowId, windowsOpen, otherProgramsVars>>

\* The callback of chrome.windows.create for window w: with the window, or
\* with none when the creation failed.
WindowCreated(w) ==
  /\ program = "background"
  /\ w \in creating
  /\ creating' = creating \ {w}
  /\ \E created \in BOOLEAN :
       IF created
       THEN /\ windowsOpen' = windowsOpen \cup {w}
            /\ recorderWindowId' = w
       ELSE UNCHANGED <<windowsOpen, recorderWindowId>>
  /\ lastFocus' = NULL
  /\ UNCHANGED <<lookups, nWindows, otherProgramsVars>>

\* The callback of the oldest chrome.windows.get: the window it asked for is
\* gone, or it exists and the window recorderWindowId names now is focused.
WindowLookedUp ==
  /\ program = "background"
  /\ lookups # <<>>
  /\ lookups' = Tail(lookups)
  /\ IF Head(lookups) \notin windowsOpen
     THEN /\ createRecorderWindow
          /\ lastFocus' = NULL
     ELSE /\ lastFocus' = recorderWindowId
          /\ UNCHANGED <<creating, nWindows>>
  /\ UNCHANGED <<recorderWindowId, windowsOpen, otherProgramsVars>>

\* The user closes recorder window w: the onRemoved listener.
WindowRemoved(w) ==
  /\ program = "background"
  /\ w \in windowsOpen
  /\ windowsOpen' = windowsOpen \ {w}
  /\ recorderWindowId' = IF w = recorderWindowId THEN NULL ELSE recorderWindowId
  /\ lastFocus' = NULL
  /\ UNCHANGED <<creating, lookups, nWindows, otherProgramsVars>>

InitBackground ==
  /\ LoadedAs("background", Chromium)
  /\ Untracked
  /\ page = NoPage
  /\ ContentIdle
  /\ BackgroundIdle
  /\ StoreIdle
  /\ PreviewIdle

NextBackground ==
  \/ MeetingDetected
  \/ ActionClicked
  \/ \E w \in 1..MaxWindows : WindowCreated(w) \/ WindowRemoved(w)
  \/ WindowLookedUp

SpecBackground == InitBackground /\ [][NextBackground]_vars

\* ==== handleStop once stop() has resolved ====
\* The recording of controller n gets the id 'rec-' + Date.now(); the model
\* takes n for it.
\* saveRecording(id, blob, meta): db.put adds or replaces the entry.
saveRecording(store, id) == store \cup {id}

\* deleteRecording(id): db.delete, a no-op where there is no such entry.
deleteRecording(store, id) == store \ {id}

reactOtherVars == <<program, supports, contentVars, backgroundVars, previewVars, popupVars>>

\* handleStop awaits saveBlobWithChromeDownloads: it resolves, and handleStop
\* goes on to deleteRecording, or rejects, and handleStop calls saveRecording.
DownloadSettled(n) ==
  /\ program = "react"
  /\ handoffs[n] > 0
  /\ handleStopAt[n] = "download"
  /\ \E ok \in BOOLEAN :
       handleStopAt' = [handleStopAt EXCEPT ![n] = IF ok THEN "delete" ELSE "save"]
  /\ UNCHANGED <<idb, alerts, reactOtherVars>>

\* saveRecording settles: resolved, the entry is in the store, the user is
\* told so and handleStop goes on to deleteRecording; rejected, the outer
\* catch alerts and handleStop returns.
SaveSettled(n) ==
  /\ program = "react"
  /\ handleStopAt[n] = "save"
  /\ \E ok \in BOOLEAN :
       IF ok
       THEN /\ idb' = saveRecording(idb, n)
            /\ alerts' = [alerts EXCEPT ![n] = "saved locally inside the extension"]
            /\ handleStopAt' = [handleStopAt EXCEPT ![n] = "delete"]
       ELSE /\ alerts' = [alerts EXCEPT ![n] = "Failed to finalize recording"]
            /\ handleStopAt' = [handleStopAt EXCEPT ![n] = "returned"]
            /\ UNCHANGED idb
  /\ UNCHANGED reactOtherVars

\* deleteRecording settles, resolved or rejected (which is only logged);
\* handleStop updates the list and returns.
DeleteSettled(n) ==
  /\ program = "react"
  /\ handleStopAt[n] = "delete"
  /\ \E ok \in BOOLEAN :
       idb' = IF ok THEN deleteRecording(idb, n) ELSE idb
  /\ handleStopAt' = [handleStopAt EXCEPT ![n] = "returned"]
  /\ UNCHANGED <<alerts, reactOtherVars>>

InitReact == Init /\ program = "react"

NextHandleStop ==
  \/ HandleStartClick
  \/ HandleStopClick
  \/ \E n \in Attempts :
       \/ ImportResolved(n)
       \/ ScreenRejected(n)
       \/ ScreenResolved(n)
       \/ MicSettled(n)
       \/ ControllerDataAvailable(n)
       \/ ControllerStopEvent(n)
       \/ DownloadSettled(n)
       \/ SaveSettled(n)
       \/ DeleteSettled(n)

SpecHandleStop == InitReact /\ [][NextHandleStop]_vars

\* ==== the hand-off of a recording to its preview page ====
previewOtherVars == <<program, supports, contentVars, backgroundVars, storeVars, popupVars>>

\* handleRecorderStop has built recording n and its FileReader has loaded:
\* onloadend calls chrome.storage.local.set.  Recordings are finalized in
\* order.
ReaderLoadEnd(n) ==
  /\ program = "preview"
  /\ stage[n] = "none"
  /\ IF n = 1 THEN TRUE ELSE stage[n - 1] # "none"
  /\ stage' = [stage EXCEPT ![n] = "setting"]
  /\ UNCHANGED <<recordingData, preview, recordingBlob, cleanupTimer, previewOtherVars>>

\* The callback of chrome.storage.local.set for recording n: with lastError
\* the recording goes to fallbackDownload; otherwise it is stored under the
\* key recordingData and a preview tab is created.
StorageSetDone(n) ==
  /\ program = "preview"
  /\ stage[n] = "setting"
  /\ \E lastError \in BOOLEAN :
       IF lastError
       THEN /\ stage' = [stage EXCEPT ![n] = "fallback"]
            /\ UNCHANGED <<recordingData, preview>>
       ELSE /\ stage' = [stage EXCEPT ![n] = "stored"]
            /\ recordingData' = n
            /\ preview' = [preview EXCEPT ![n] = "opening"]
  /\ UNCHANGED <<recordingBlob, cleanupTimer, previewOtherVars>>

\* initialize() of the preview page for recording n: the callback of
\* chrome.storage.local.get and the conversion of what it found.
PreviewInitialize(n) ==
  /\ program = "preview"
  /\ preview[n] = "opening"
  /\ \E ok \in BOOLEAN :
       IF ~ok
       THEN /\ preview' = [preview EXCEPT ![n] = "error"]
            /\ UNCHANGED recordingBlob
       ELSE IF recordingData = NULL
            THEN /\ preview' = [preview EXCEPT ![n] = "nodata"]
                 /\ UNCHANGED recordingBlob
            ELSE /\ preview' = [preview EXCEPT ![n] = "loaded"]
                 /\ recordingBlob' = [recordingBlob EXCEPT ![n] = recordingData]
  /\ UNCHANGED <<recordingData, stage, cleanupTimer, previewOtherVars>>

\* cleanup() of preview page n: the key is removed, whatever it holds.
cleanup(n) ==
  /\ recordingData' = NULL
  /\ recordingBlob' = [recordingBlob EXCEPT ![n] = NULL]

\* Download clicked on preview page n with its recording loaded.
DownloadClick(n) ==
  /\ program = "preview"
  /\ preview[n] = "loaded"
  /\ recordingBlob[n] # NULL
  /\ cleanupTimer' = cleanupTimer \cup {n}
  /\ UNCHANGED <<recordingData, stage, preview, recordingBlob, previewOtherVars>>

\* The 2 s timer set by Download fires.
CleanupTimer(n) ==
  /\ program = "preview"
  /\ n \in cleanupTimer
  /\ cleanupTimer' = cleanupTimer \ {n}
  /\ cleanup(n)
  /\ UNCHANGED <<stage, preview, previewOtherVars>>

\* Discard clicked and confirmed on preview page n: cleanup now, the page
\* closes itself after 1 s.
DiscardClick(n) ==
  /\ program = "preview"
  /\ preview[n] \in {"opening", "loaded"}
  /\ cleanup(n)
  /\ preview' = [preview EXCEPT ![n] = "closing"]
  /\ UNCHANGED <<stage, cleanupTimer, previewOtherVars>>

\* New Recording clicked on preview page n: cleanup now, the page closes
\* itself after 500 ms.
NewRecordingClick(n) ==
  /\ program = "preview"
  /\ preview[n] \in {"opening", "loaded"}
  /\ cleanup(n)
  /\ preview' = [preview EXCEPT ![n] = "closing"]
  /\ UNCHANGED <<stage, cleanupTimer, previewOtherVars>>

\* Preview page n is closed, by itself or by the user: beforeunload runs
\* cleanup, and the page's timers go with it.
PreviewUnload(n) ==
  /\ program = "preview"
  /\ preview[n] \notin {"none", "closed"}
  /\ cleanup(n)
  /\ preview' = [preview EXCEPT ![n] = "closed"]
  /\ cleanupTimer' = cleanupTimer \ {n}
  /\ UNCHANGED <<stage, previewOtherVars>>

InitPreview ==
  /\ LoadedAs("preview", Chromium)
  /\ Untracked
  /\ page = NoPage
  /\ ContentIdle
  /\ BackgroundIdle
  /\ StoreIdle
  /\ PreviewIdle

NextPreview ==
  \E n \in Recordings :
    \/ ReaderLoadEnd(n)
    \/ StorageSetDone(n)
    \/ PreviewInitialize(n)
    \/ DownloadClick(n)
    \/ CleanupTimer(n)
    \/ DiscardClick(n)
    \/ NewRecordingClick(n)
    \/ PreviewUnload(n)

SpecPreview == InitPreview /\ [][NextPreview]_vars

\* ---- the window recorder, every awaited request settling ----
\* Starts, stops and the requests startRecordingFlow awaits, each of which
\* is answered in the end: getUserMedia, the permission query with the
\* continue prompt, getDisplayMedia.
NextStartFlow ==
  \/ StartClick
  \/ AutoStartTimer
  \/ StopClick
  \/ \E n \in Attempts :
       \/ MicGranted(n)
       \/ MicRejected(n)
       \/ MicPermissionChecked(n)
       \/ DisplayRejected(n)
       \/ DisplayResolved(n)
       \/ RecorderStopEvent(n)

SpecStartFlow ==
  /\ InitWindow
  /\ [][NextStartFlow]_vars
  /\ \A n \in Attempts :
       /\ WF_vars(MicGranted(n) \/ MicRejected(n))
       /\ WF_vars(MicPermissionChecked(n))
       /\ WF_vars(DisplayRejected(n) \/ DisplayResolved(n))

\* ---- one session of the window recorder, recorder.stop() failing ----
\* Stop clicked, and recorder.stop() throws: stopRecordingFlow has logged
\* 'Stopping...', its catch block logs a warning, and the recorder is as it
\* was.
StopClickThrown ==
  /\ program = "window"
  /\ ~stopDisabled
  /\ RecorderActive
  /\ status' = "Stopping..."
  /\ NoTrace
  /\ UNCHANGED <<pageVars, prefVars, errored, askVars, autoStart, flowVars, resVars,
                 startDisabled, stopDisabled, instructions, endedPending, recVars,
                 chunkVars, sinkVars, reactVars>>

NextStopFlow ==
  \/ (nAttempts = 0 /\ StartClick)
  \/ (nAttempts = 0 /\ AutoStartTimer)
  \/ StopClick
  \/ StopClickThrown
  \/ \E n \in Attempts :
       \/ MicGranted(n)
       \/ MicRejected(n)
       \/ MicPermissionChecked(n)
       \/ DisplayRejected(n)
       \/ DisplayResolved(n)
       \/ RecorderStopEvent(n)

\* A queued stop event is delivered.
SpecStopFlow ==
  /\ InitWindow
  /\ [][NextStopFlow]_vars
  /\ \A n \in Attempts : WF_vars(RecorderStopEvent(n))

\* ---- the first start of the window recorder, in any browser ----
\* The window recorder loaded in a browser with any isTypeSupported answers,
\* from its first Start click to the return of startRecordingFlow.
InitAnyBrowser ==
  /\ \E browser \in Browsers : Loaded(browser)
  /\ Untracked
  /\ program = "window"

NextFirstStart ==
  \/ (nAttempts = 0 /\ StartClick)
  \/ \E n \in Attempts :
       \/ MicGranted(n)
       \/ MicRejected(n)
       \/ MicPermissionChecked(n)
       \/ DisplayRejected(n)
       \/ DisplayResolved(n)

SpecFirstStart == InitAnyBrowser /\ [][NextFirstStart]_vars

\* ==== properties ====

\* startRecordingFlow has returned and no recorder is recording or awaits its
\* stop event.
AtRest == \A n \in Attempts : flow[n] \notin Pending /\ rec[n] = "inactive"

\* The sessions in progress: preparing, recording or stopping.
InProgress == {n \in Attempts : flow[n] \in Pending \/ rec[n] # "inactive"}

\* C1: in the window recorder, whenever the flow is at rest every track
\* acquired so far is stopped and every AudioContext created so far is closed.
C1_AllReleasedAtRest ==
  (program = "window" /\ AtRest) => ((\A n \in Attempts : live[n] = {}) /\ ctxOpen = {})

\* C2: when startRecordingFlow (window or legacy) returns at an abandonment
\* point before mixing (microphone denied, continue declined, display
\* cancelled or failed), none of the attempt's tracks is live, micStream is
\* null and the attempt has no AudioContext.
C2_NoLeakOnAbandonment ==
  [][\A n \in Attempts :
       (/\ program \in {"window", "legacy"}
        /\ flow[n] \in {"awaitPerm", "awaitDisplay"}
        /\ flow'[n] = "returned"
        /\ displayStream' # n)
       => (live'[n] = {} /\ micStream' = NULL /\ n \notin ctxOpen')]_vars

\* C3: in the window recorder a recorder is stopped at most once and
\* finalized at most once, and a recording session whose display video track
\* has ended is stopped by the time the 'ended' listener and the poll have
\* both run.
C3_ExactlyOneStopAndFinalize ==
  program = "window" =>
    \A n \in Attempts :
      /\ stopCalls[n] <= 1
      /\ finalizeCalls[n] <= 1
      /\ handoffs[n] <= 1
      /\ (rec[n] = "recording" /\ "video" \notin live[n])
           => (n \in endedPending \/ n \in pollActive)

\* C4: in the window recorder, once MediaRecorder construction or
\* recorder.start() has failed and been reported, the full teardown has run:
\* context closed, all tracks stopped, poll cleared, references null.
C4_FullTeardownOnRecorderFailure ==
  (program = "window" /\ status \in {"Recording failed", "Could not start recorder"})
    => /\ ctxOpen = {}
       /\ \A n \in Attempts : live[n] = {}
       /\ pollActive = {}
       /\ combinedStream = NULL /\ displayStream = NULL /\ micStream = NULL

\* C5: in the window recorder at most one session is preparing, recording or
\* stopping at any time.
C5_AtMostOneSession ==
  program = "window" => Cardinality(InProgress) <= 1

\* C6: the recording built at a recorder's stop event (window recorder and
\* recorder.ts) consists of exactly the non-empty chunks that recorder fired,
\* in the order it fired them.
C6_RecordingIsFiredChunks ==
  (program \in {"window", "react"} /\ lastBlob.of # NULL)
    => lastBlob.parts = lastBlob.fired

\* C6 witness: a recorder.ts recording built from two or more chunks.
C6_Witness ==
  program = "react" /\ lastBlob.of # NULL /\ Len(lastBlob.parts) >= 2

Outcome(r) == [r EXCEPT !.log = <<>>]

\* C8: in every reachable state of the window recorder, with all or only
\* some of the resources present, cleanupRecordingResources run twice leaves
\* the state it leaves when run once, closes no context that is not open, and
\* that state has the referenced tracks stopped, the referenced context
\* closed, the referenced poll cleared and the references null.
C8_TeardownIdempotent ==
  program = "window" =>
    LET once  == cleanupRecordingResources(Resources)
        twice == cleanupRecordingResources(Outcome(once))
    IN /\ Outcome(twice) = Outcome(once)
       /\ ~twice.closeRejected
       /\ ~closeRejected
       /\ once.combinedStream = NULL /\ once.displayStream = NULL /\ once.micStream = NULL
       /\ combinedStream # NULL => once.live[combinedStream] \cap StreamTracks("combined") = {}
       /\ displayStream # NULL => once.live[displayStream] \cap StreamTracks("display") = {}
       /\ micStream # NULL => once.live[micStream] \cap StreamTracks("mic") = {}
       /\ (combinedStream # NULL /\ audioContext # NULL) => audioContext \notin once.ctxOpen
       /\ displayStream # NULL => displayStream \notin once.pollActive

\* C8 witness: the stop handler's teardown ran right after a teardown, with
\* nothing left to release.
C8_Witness ==
  program = "window" /\ lastBlob.of # NULL /\ lastTeardown = <<"nullRefs">>

\* Position of each release step in the order the specification states:
\* close the context, stop all tracks, clear the poll, null the references.
StatedRank(step) ==
  CASE step = "closeContext" -> 1
    [] step \in {"stopCombined", "stopDisplay", "stopMic"} -> 2
    [] step = "clearPoll" -> 3
    [] step = "nullRefs" -> 4

\* Position of each release step in cleanupRecordingResources.
WindowRank(step) ==
  CASE step = "closeContext" -> 1
    [] step = "stopCombined" -> 2
    [] step = "clearPoll" -> 3
    [] step = "stopDisplay" -> 4
    [] step = "stopMic" -> 5
    [] step = "nullRefs" -> 6

\* Position of each release step in recorder.onstop of recorder.ts.
ControllerRank(step) ==
  CASE step = "stopCombined" -> 1
    [] step = "stopDisplay" -> 2
    [] step = "stopMic" -> 3
    [] step = "closeContext" -> 4

\* C9 as stated: every teardown (window recorder, recorder.ts) runs its
\* steps in the order close context, stop tracks, clear poll, null references.
C9_StatedOrder ==
  program \in {"window", "react"} =>
    \A i, j \in 1..Len(lastTeardown) :
      i < j => StatedRank(lastTeardown[i]) <= StatedRank(lastTeardown[j])

\* The order the code follows (C9): the window recorder releases in the order close context, stop
\* combined tracks, clear poll, stop display tracks, stop microphone tracks,
\* null references, on every path; recorder.ts stops the combined, display
\* and microphone tracks and closes the context last.
C9_ActualOrder ==
  /\ program = "window" =>
       \A i, j \in 1..Len(lastTeardown) :
         i < j => WindowRank(lastTeardown[i]) < WindowRank(lastTeardown[j])
  /\ program = "react" =>
       \A i, j \in 1..Len(lastTeardown) :
         i < j => ControllerRank(lastTeardown[i]) < ControllerRank(lastTeardown[j])

\* C9 witness: a window teardown that ran all six steps.
C9_Witness ==
  program = "window" /\ Len(lastTeardown) = 6

\* C10: whenever a stop handler hands its recording to the consumer, the
\* session's tracks are all stopped and its AudioContext is closed.
C10_ReleasedBeforeHandoff ==
  lastBlob.of # NULL => lastBlob.released

\* C11: whenever createCombinedStreamUsingAudioContext (window and legacy)
\* returns, it has created an AudioContext if and only if the display stream
\* or the microphone stream has an audio track, and the stream it returns has
\* no audio track when neither has one and exactly one otherwise.
C11_MixIffAudio ==
  (program \in {"window", "legacy"} /\ lastCall.op = "start"
     /\ lastCall.outcome # "mixFailed")
    => LET anyAudio == lastCall.displayAudio \/ lastCall.micAudio
       IN /\ lastCall.mix.context = anyAudio
          /\ lastCall.mix.audioTracks = IF anyAudio THEN 1 ELSE 0

\* C11 witness: a mix of the microphone alone, the display carrying no audio.
C11_Witness ==
  /\ program = "window" /\ lastCall.op = "start" /\ lastCall.outcome = "recording"
  /\ ~lastCall.displayAudio /\ lastCall.micAudio
  /\ lastCall.mix.context /\ lastCall.mix.audioTracks = 1

\* C12: the source nodes connected into the mixing destination (window
\* recorder and recorder.ts) are as many as the streams, display and
\* microphone, that carry an audio track.
C12_OneConnectionPerAudioStream ==
  (program \in {"window", "react"} /\ lastCall.op = "start"
     /\ lastCall.outcome # "mixFailed")
    => lastCall.mix.connections =
         (IF lastCall.displayAudio THEN 1 ELSE 0) + (IF lastCall.micAudio THEN 1 ELSE 0)

\* C12 witness: the window recorder mixed the microphone while the display
\* stream, without audio, was skipped.
C12_Witness ==
  /\ program = "window" /\ lastCall.op = "start" /\ lastCall.outcome = "recording"
  /\ ~lastCall.displayAudio /\ lastCall.micAudio /\ lastCall.mix.connections = 1

\* C13: when getUserMedia has failed and the permission state is 'denied',
\* startRecordingFlow shows the instructions, re-enables Start and returns,
\* its attempt having no track, no AudioContext and no recorder; and an
\* attempt that has returned requests nothing afterwards.
C13_DeniedStopsFlow ==
  [][\A n \in Attempts :
       /\ (/\ flow[n] = "awaitPerm"
           /\ lastCall'.op = "micFailure" /\ lastCall'.of = n
           /\ lastCall'.permissionState = "denied")
          => (/\ flow'[n] = "returned"
              /\ instructions' /\ ~startDisabled' /\ stopDisabled'
              /\ live'[n] = {} /\ n \notin ctxOpen'
              /\ rec'[n] = "inactive" /\ recorder' # n /\ displayStream' # n)
       /\ flow[n] = "returned" => flow'[n] = "returned"]_vars

\* C13 witness: the flow has just returned on a denied permission.
C13_Witness ==
  /\ lastCall.op = "micFailure" /\ lastCall.permissionState = "denied"
  /\ flow[lastCall.of] = "returned" /\ instructions

\* C14: when getUserMedia has failed and the permission state is not
\* 'denied', the user is asked; on a refusal the flow returns with Start
\* re-enabled, its attempt holding no stream and never reaching display
\* capture; on an acceptance it goes on to display capture with micStream null.
C14_ContinueWithoutMic ==
  [][\A n \in Attempts :
       (/\ flow[n] = "awaitPerm"
        /\ lastCall'.op = "micFailure" /\ lastCall'.of = n
        /\ lastCall'.permissionState # "denied")
       => /\ lastCall'.asked
          /\ ~lastCall'.proceed
               => (/\ flow'[n] = "returned" /\ ~startDisabled'
                   /\ live'[n] = {} /\ micStream' # n /\ displayStream' # n
                   /\ combinedStream' # n)
          /\ lastCall'.proceed
               => (flow'[n] = "awaitDisplay" /\ micStream' = NULL)]_vars

\* C14 witness: the user accepted and the flow awaits the display picker
\* without a microphone.
C14_Witness ==
  /\ lastCall.op = "micFailure" /\ lastCall.asked /\ lastCall.proceed
  /\ flow[lastCall.of] = "awaitDisplay" /\ micStream = NULL

\* C15: a run of startRecordingFlow entered with the microphone option off
\* goes straight to display capture, making no microphone request, and a run
\* with the option on shows at most one microphone permission prompt.
C15_AtMostOnePrompt ==
  /\ (lastCall.op = "enter" /\ ~lastCall.includeMic)
       => flow[lastCall.of] = "awaitDisplay"
  /\ \A n \in Attempts : micPrompts[n] <= 1
  /\ lastCall.op = "micRequest" => lastCall.prompts <= 1

\* C16: the window recorder takes a display-capture error named AbortError,
\* NotAllowedError, SecurityError, NotFoundError or NotReadableError for a
\* cancellation (the 'cancelled' status, no failure text) and reports every
\* other one as a failure whose status carries the error's message; either
\* way Start is re-enabled.
C16_DisplayErrorClassified ==
  (program = "window" /\ lastCall.op = "displayError")
    => /\ ~startDisabled /\ stopDisabled
       /\ IF lastCall.name \in {"AbortError", "NotAllowedError", "SecurityError",
                                "NotFoundError", "NotReadableError"}
          THEN status = "Ready. Screen sharing was cancelled." /\ lastCall.detail = ""
          ELSE /\ status = "Failed to start display capture"
               /\ lastCall.message # "" => lastCall.detail = lastCall.message

\* C16 witness: a NotReadableError taken for a cancellation.
C16_Witness ==
  /\ program = "window" /\ lastCall.op = "displayError"
  /\ lastCall.name = "NotReadableError"
  /\ status = "Ready. Screen sharing was cancelled."

\* C17: getSupportedMimeType returns the first candidate that isTypeSupported
\* accepts, a throwing check counting as a refusal, and the empty string when
\* none is accepted; the recorder is then made with the browser's default
\* format.
C17_FirstSupportedCandidate ==
  (program = "window" /\ lastCall.op = "start" /\ lastCall.outcome # "mixFailed")
    => LET accepted == {i \in 1..Len(candidates) : supports[i] = "yes"}
       IN IF accepted = {}
          THEN lastCall.mimeType = "" /\ lastCall.recorderMimeType = defaultMimeType
          ELSE /\ lastCall.mimeType =
                    candidates[CHOOSE i \in accepted : \A j \in accepted : i <= j]
               /\ lastCall.recorderMimeType = lastCall.mimeType

\* C17 witness: no candidate accepted, one check throwing, and the recorder
\* recording all the same.
C17_Witness ==
  /\ program = "window" /\ lastCall.op = "start" /\ lastCall.outcome = "recording"
  /\ \A i \in 1..Len(candidates) : supports[i] # "yes"
  /\ \E i \in 1..Len(candidates) : supports[i] = "throws"
  /\ lastCall.mimeType = ""

\* C18: the type of the recording built at a recorder's stop event (window
\* recorder and recorder.ts) is the format negotiated for that recorder.
C18_BlobTypeIsNegotiated ==
  (program \in {"window", "react"} /\ lastBlob.of # NULL)
    => lastBlob.type =
         (IF program = "window" THEN recorderMimeType(getSupportedMimeType(supports))
          ELSE controllerRecorderMimeType(supports))

\* C19: pause() on a RecorderController pauses a recorder that is recording
\* and resume() resumes one that is paused; called in any other state, after
\* stop() and repeatedly included, they do not throw and leave the recorder
\* state and the accumulated chunks as they were.  Neither ever touches the
\* chunks.
C19_PauseResumeGuarded ==
  [][\A n \in Attempts :
       /\ (lastCall'.op = "pause" /\ lastCall'.of = n)
            => /\ ~lastCall'.threw
               /\ chunks'[n] = chunks[n] /\ delivered'[n] = delivered[n]
               /\ rec'[n] = IF recorderState(rec[n]) = "recording" THEN "paused" ELSE rec[n]
       /\ (lastCall'.op = "resume" /\ lastCall'.of = n)
            => /\ ~lastCall'.threw
               /\ chunks'[n] = chunks[n] /\ delivered'[n] = delivered[n]
               /\ rec'[n] = IF recorderState(rec[n]) = "paused" THEN "recording" ELSE rec[n]]_vars

\* C19 witness: pause() called after stop(), on a recorder that is inactive
\* with its stop event still to come, and nothing thrown.
C19_Witness ==
  /\ program = "react" /\ lastCall.op = "pause" /\ ~lastCall.threw
  /\ rec[lastCall.of] = "stopping"
  /\ stopPromises[lastCall.of] # <<>>

\* C20: a recorder's error event changes nothing but the status line: the
\* streams, the mixing context, the end-of-capture poll, the chunks, the
\* Start and Stop controls and the recorder reference stay as they were, the
\* recorder's state being what the platform made it before the event.
C20_ErrorHandlerFrame ==
  [][\A n \in Attempts :
       (lastCall'.op = "error" /\ lastCall'.of = n)
         => /\ live' = live /\ ctxOpen' = ctxOpen /\ pollActive' = pollActive
            /\ recorder' = recorder /\ recorderRef' = recorderRef
            /\ recordedChunks' = recordedChunks /\ chunks' = chunks
            /\ startDisabled' = startDisabled /\ stopDisabled' = stopDisabled
            /\ isRecording' = isRecording
            /\ rec' = [rec EXCEPT ![n] = IF lastCall'.fatal THEN "stopping" ELSE @]]_vars

\* C20: a stop requested for a session whose recorder has fired an error
\* event still finalizes it: once that recorder is inactive with no stop
\* event to come, the session's tracks are stopped and its mixing context is
\* closed.
C20_ErrorLeavesSessionStoppable ==
  \A n \in errored :
    LET stopRequested == IF program = "react" THEN stopPromises[n] # <<>>
                         ELSE stopCalls[n] > 0
    IN (stopRequested /\ rec[n] = "inactive") => ReleasedIn(Resources, n)

\* C21: in the window recorder, whenever the display video track has ended
\* while the session's recorder is recording, the poll that tests the
\* track's readyState is still running and the recorder it would stop is
\* this session's recorder, so that the poll alone leads to the stop path.
C21_PollStopsOwnRecorder ==
  program = "window" =>
    \A n \in Attempts :
      (rec[n] = "recording" /\ "video" \notin live[n]) => (n \in pollActive /\ recorder = n)

\* C21, one session at a time: with the 'ended' event never delivered, a
\* display video track that ended while recording leads to the session
\* finalized, its tracks stopped, its context closed and its poll cleared.
C21_PollAloneFinalizes ==
  \A n \in Attempts :
    (rec[n] = "recording" /\ "video" \notin live[n])
      ~> (rec[n] = "inactive" /\ finalizeCalls[n] = 1 /\ ReleasedIn(Resources, n)
          /\ n \notin pollActive)

\* C21, one session: the poll has stopped a recorder whose 'ended' event is
\* still undelivered.
C21_PollWitness ==
  \E n \in Attempts :
    /\ n \in endedPending /\ n \notin pollActive
    /\ rec[n] = "stopping" /\ status = "Stopping..."

\* C22: every run of startRecordingFlow (window and legacy) that returns
\* without a recorder recording, whether the microphone is permanently
\* denied, continuing is declined, the display request is cancelled or
\* fails, the mixing fails, or the recorder cannot be made or started,
\* leaves one of the failure messages in the status, never 'Preparing...',
\* with Start enabled and Stop disabled.
C22_FailureReported ==
  [][\A n \in Attempts :
       (program \in {"window", "legacy"} /\ flow[n] \in Pending /\ flow'[n] = "returned"
          /\ rec'[n] # "recording")
         => /\ status' \in {"Microphone permission is denied.",
                            "Recording cancelled because microphone is required.",
                            "Ready. Screen sharing was cancelled.",
                            "Failed to start display capture",
                            "Failed to prepare audio mixing",
                            "Recording failed",
                            "Could not start recorder"}
            /\ ~startDisabled' /\ stopDisabled']_vars

\* C22 witness: recorder.start() threw, and the run returned with its
\* message in the status and Start enabled.
C22_Witness ==
  /\ program \in {"window", "legacy"}
  /\ lastCall.op = "start" /\ lastCall.outcome = "startFailed"
  /\ flow[lastCall.of] = "returned" /\ rec[lastCall.of] = "inactive"
  /\ status = "Could not start recorder" /\ ~startDisabled /\ stopDisabled

\* C23: when the beforeunload listener of either popup script has run, every
\* track of the streams that combinedStream, displayStream and micStream
\* refer to is stopped, the mixing context of combinedStream is closed and
\* no recorder is active, whether or not a recording was in progress.
C23_UnloadStopsEverything ==
  lastCall.op = "beforeunload" =>
    /\ combinedStream # NULL => live[combinedStream] \cap StreamTracks("combined") = {}
    /\ displayStream # NULL => live[displayStream] \cap StreamTracks("display") = {}
    /\ micStream # NULL => live[micStream] \cap StreamTracks("mic") = {}
    /\ (combinedStream # NULL /\ audioContext # NULL) => audioContext \notin ctxOpen
    /\ ~RecorderActive

\* C24: in the React popup, under every interleaving of clicks with the
\* pending startRecorder() and stop() calls, at most one recorder made by
\* startRecorder() is active at a time, and every active recorder's
\* controller is the one recorderRef holds, with the Stop button rendered, so
\* that none is overwritten and lost.
C24_OneControllerReachable ==
  program = "react" =>
    /\ Cardinality({n \in Attempts : rec[n] \in {"recording", "paused"}}) <= 1
    /\ \A n \in Attempts :
         rec[n] \in {"recording", "paused"} => (recorderRef = n /\ isRecording)

\* C25: whenever the auto-start timer starts the recording flow, the
\* microphone and system-audio options the flow reads are the stored
\* preferences, whichever of the preference load and the timer comes first.
C25_AutoStartReadsStored ==
  [][(autoStart = "armed" /\ autoStart' = "fired" /\ lastCall'.op = "enter")
       => /\ lastCall'.includeMic = stored.includeMic
          /\ wantSys'[lastCall'.of] = stored.includeSystemAudio]_vars

\* C26: when startRecorder() rejects, at whatever step, no display track,
\* microphone track or mixing context acquired by that call is left live or
\* open.
C26_RejectedStartHoldsNothing ==
  (program = "react" /\ lastCall.op = "start" /\ lastCall.outcome # "recording")
    => ReleasedIn(Resources, lastCall.of)

\* C27: startRecorder() creates a mixing context only when the display
\* stream or the microphone stream carries an audio track; when neither
\* does, no AudioContext is open for the call and its final stream has no
\* audio track.
C27_ControllerMixIffAudio ==
  (program = "react" /\ lastCall.op = "start"
     /\ ~lastCall.displayAudio /\ ~lastCall.micAudio)
    => /\ lastCall.of \notin ctxOpen
       /\ "mixed" \notin live[lastCall.of]

\* C28: in startRecorder() a rejected microphone request does not abort the
\* start: the display stream stays held, and when the recorder starts it
\* records with the screen's audio as the only source mixed; and stop() on
\* a controller started without a microphone releases every track and the
\* mixing context before the recording is handed over.
C28_MicFailureTolerated ==
  /\ [][(program = "react" /\ lastCall'.op = "start" /\ ~lastCall'.micAudio)
          => LET n == lastCall'.of
             IN /\ live'[n] \cap StreamTracks("display") = live[n] \cap StreamTracks("display")
                /\ "mic" \notin live'[n]
                /\ lastCall'.mix.connections = (IF lastCall'.displayAudio THEN 1 ELSE 0)
                /\ lastCall'.outcome = "recording"
                     => (rec'[n] = "recording" /\ recorderRef' = n)]_vars
  /\ []((program = "react" /\ lastBlob.of # NULL /\ ~lastBlob.mic)
          => (lastBlob.released /\ ReleasedIn(Resources, lastBlob.of)))

\* C28 witness: a controller started after a rejected microphone request
\* was stopped and has released everything.
C28_Witness ==
  /\ program = "react" /\ lastBlob.of # NULL /\ ~lastBlob.mic
  /\ lastBlob.released /\ handoffs[lastBlob.of] = 1


\* C29: a run of checkAndNotify that detects an active meeting sends
\* meetingDetected exactly when the run before it did not detect an active
\* meeting with the same identifier: successive detections of one identifier
\* get one message, the first, and a detection with another identifier gets
\* one more.
C29_OneMessagePerMeeting ==
  [][(page' = page /\ lastCheck'.active)
       => /\ lastCheck'.sent <=> ~(lastCheck.active /\ lastCheck.id = lastCheck'.id)
          /\ nSessions' = nSessions + (IF lastCheck'.sent THEN 1 ELSE 0)]_vars

\* C30: after a run of checkAndNotify that saw no active meeting no session
\* is tracked, and the next run that detects an active meeting sends
\* meetingDetected, whatever the identifiers of the meetings are.
C30_LeavingClearsSession ==
  /\ [](~lastCheck.active => meetingSessionId = NULL)
  /\ [][(page' = page /\ ~lastCheck.active /\ lastCheck'.active) => lastCheck'.sent]_vars


\* C31: at most one recorder window created by the background script exists
\* at any time.
C31_OneRecorderWindow == Cardinality(windowsOpen) <= 1


\* C32: when handleStop has returned after telling the user that the
\* recording was saved locally inside the extension, the recording is in the
\* IndexedDB store.
C32_SavedRecordingKept ==
  \A n \in Attempts :
    (handleStopAt[n] = "returned" /\ alerts[n] = "saved locally inside the extension")
      => n \in idb


\* C33: while the preview page opened for a recording has not loaded it, the
\* key recordingData holds that recording; and a preview page that loads a
\* recording loads the one it was opened for.
C33_PreviewFindsItsRecording ==
  \A n \in Recordings :
    /\ preview[n] = "opening" => recordingData = n
    /\ preview[n] = "loaded" => recordingBlob[n] \in {n, NULL}


\* C34: in the window recorder, no 'ended' listener and no poll callback of
\* an attempt that has ended (its flow returned and its recorder, if it got
\* one, finalized) stops the recorder of another session that is recording.
C34_EndedAttemptStopsNothing ==
  [][program = "window" =>
       \A n \in Attempts :
         ( /\ flow[n] = "returned"
           /\ rec[n] = "inactive"
           /\ (n \in pollActive /\ n \notin pollActive')
                \/ (n \in endedPending /\ n \notin endedPending')
           /\ recorder \notin {NULL, n}
           /\ rec[recorder] = "recording" )
         => ~(status' = "Stopping..." /\ rec'[recorder] = "stopping")]_vars


\* C35: for each RecorderController, once its recorder is inactive with no
\* stop event left to deliver, none of the promises its stop() calls returned
\* is still pending, and where stop() was called exactly one of them has
\* resolved with the recording.
C35_StopPromisesSettle ==
  \A n \in Attempts :
    (program = "react" /\ rec[n] = "inactive" /\ stopPromises[n] # <<>>)
      => /\ \A k \in DOMAIN stopPromises[n] : stopPromises[n][k] # "pending"
         /\ Cardinality({k \in DOMAIN stopPromises[n] : stopPromises[n][k] = "resolved"}) = 1


\* C36: in the window recorder, with every awaited request settling, each
\* invocation of startRecordingFlow returns, and at its return the controls
\* are those of idle (Start enabled, Stop disabled) or of recording (Start
\* disabled, Stop enabled); the state with both controls disabled is always
\* left again.
C36_StartFlowSettles ==
  /\ \A n \in Attempts : (flow[n] \in Pending) ~> (flow[n] = "returned")
  /\ [][\A n \in Attempts :
          (flow[n] \in Pending /\ flow'[n] = "returned")
            => \/ (~startDisabled' /\ stopDisabled' /\ rec'[n] # "recording")
               \/ (startDisabled' /\ ~stopDisabled' /\ rec'[n] = "recording")]_vars
  /\ (startDisabled /\ stopDisabled) ~> ~(startDisabled /\ stopDisabled)

\* C36 witness: an invocation that went through the display capture
\* without a microphone stream and reached recording.
C36_Witness ==
  /\ program = "window"
  /\ lastCall.op = "start" /\ lastCall.outcome = "recording" /\ ~lastCall.micAudio
  /\ flow[lastCall.of] = "returned" /\ rec[lastCall.of] = "recording"
  /\ startDisabled /\ ~stopDisabled


\* C37: in the window recorder, once stopRecordingFlow has been entered for
\* a recording session (the status is 'Stopping...'), the flow reaches idle:
\* Start enabled, Stop disabled, and combinedStream, displayStream and
\* micStream null.
C37_StopReachesIdle ==
  (status = "Stopping...")
    ~> (/\ ~startDisabled /\ stopDisabled
        /\ combinedStream = NULL /\ displayStream = NULL /\ micStream = NULL)

====
